---- MODULE Spec2Model ----
(***************************************************************************)
(* RankGEO: the GEO score pipeline of AnalysisService                      *)
(* (generateSearchPrompts, the concurrent web-search fan-out, groupSources,*)
(* classifyDomains, the score) and the URL helpers it rests on.            *)
(*                                                                         *)
(* Strings are sequences of one-character strings, so that toLowerCase,    *)
(* startsWith, slice, the URL parser and Array.prototype.sort are computed *)
(* character by character as the JavaScript runtime computes them.         *)
(***************************************************************************)
EXTENDS Integers, Sequences, FiniteSets, TLC

(***************************************************************************)
(* Characters and strings                                                  *)
(***************************************************************************)
Lower == <<"a","b","c","d","e","f","g","h","i","j","k","l","m",
           "n","o","p","q","r","s","t","u","v","w","x","y","z">>

Upper == <<"A","B","C","D","E","F","G","H","I","J","K","L","M",
           "N","O","P","Q","R","S","T","U","V","W","X","Y","Z">>

Digits == <<"0","1","2","3","4","5","6","7","8","9">>

Range(s) == {s[i] : i \in 1..Len(s)}

IndexIn(s, c) == CHOOSE i \in 1..Len(s) : s[i] = c

IsUpper(c) == c \in Range(Upper)

IsLower(c) == c \in Range(Lower)

IsDigit(c) == c \in Range(Digits)

IsAlpha(c) == IsUpper(c) \/ IsLower(c)

\* UTF-16 code unit of a character of the modelled alphabet.
CharCode(c) ==
    IF IsUpper(c) THEN 64 + IndexIn(Upper, c)
    ELSE IF IsLower(c) THEN 96 + IndexIn(Lower, c)
    ELSE IF IsDigit(c) THEN 47 + IndexIn(Digits, c)
    ELSE CASE c = " " -> 32
           [] c = "#" -> 35
           [] c = "+" -> 43
           [] c = "-" -> 45
           [] c = "." -> 46
           [] c = "/" -> 47
           [] c = ":" -> 58
           [] c = "=" -> 61
           [] c = "?" -> 63
           [] c = "_" -> 95

ToLowerChar(c) == IF IsUpper(c) THEN Lower[IndexIn(Upper, c)] ELSE c

\* String.prototype.toLowerCase
ToLowerCase(s) == [i \in 1..Len(s) |-> ToLowerChar(s[i])]

\* String.prototype.startsWith
StartsWith(s, p) == Len(p) <= Len(s) /\ SubSeq(s, 1, Len(p)) = p

\* String.prototype.slice(n) for 0 <= n
SliceFrom(s, n) == SubSeq(s, n + 1, Len(s))

\* String.prototype.trim over the modelled alphabet (space is its only blank)
RECURSIVE TrimStart(_)
TrimStart(s) == IF s # <<>> /\ Head(s) = " " THEN TrimStart(Tail(s)) ELSE s

RECURSIVE TrimEnd(_)
TrimEnd(s) ==
    IF s # <<>> /\ s[Len(s)] = " " THEN TrimEnd(SubSeq(s, 1, Len(s) - 1)) ELSE s

Trim(s) == TrimEnd(TrimStart(s))

\* a < b in the order of Array.prototype.sort() without a comparator
\* (UTF-16 code units, a proper prefix first)
RECURSIVE StrLess(_, _)
StrLess(a, b) ==
    IF b = <<>> THEN FALSE
    ELSE IF a = <<>> THEN TRUE
    ELSE IF CharCode(Head(a)) < CharCode(Head(b)) THEN TRUE
    ELSE IF CharCode(Head(a)) > CharCode(Head(b)) THEN FALSE
    ELSE StrLess(Tail(a), Tail(b))

\* index of the first character of s that satisfies the stop set, or Len(s)+1
RECURSIVE FirstOf(_, _, _)
FirstOf(s, stops, i) ==
    IF i > Len(s) THEN Len(s) + 1
    ELSE IF s[i] \in stops THEN i
    ELSE FirstOf(s, stops, i + 1)

(***************************************************************************)
(* new URL(input): the WHATWG URL parser without a base URL, for inputs    *)
(* over the modelled alphabet (no credentials, no IP literals, no          *)
(* percent-escapes, no backslashes, no "file:" URLs).                      *)
(***************************************************************************)
Str_http == <<"h","t","t","p">>

Str_https == <<"h","t","t","p","s">>

Str_ftp == <<"f","t","p">>

Str_ws == <<"w","s">>

Str_wss == <<"w","s","s">>

Str_www == <<"w","w","w",".">>

Str_null == <<"n","u","l","l">>

Str_colonSlashSlash == <<":","/","/">>

SpecialSchemes == {Str_http, Str_https, Str_ftp, Str_ws, Str_wss}

DefaultPort(scheme) ==
    CASE scheme \in {Str_http, Str_ws} -> 80
      [] scheme \in {Str_https, Str_wss} -> 443
      [] scheme = Str_ftp -> 21
      [] OTHER -> -1

IsSchemeChar(c) == IsAlpha(c) \/ IsDigit(c) \/ c \in {"+", "-", "."}

RECURSIVE DropLeadingSlashes(_)
DropLeadingSlashes(s) ==
    IF s # <<>> /\ Head(s) = "/" THEN DropLeadingSlashes(Tail(s)) ELSE s

\* the decimal value of a string of digits
RECURSIVE DigitsValue(_)
DigitsValue(s) ==
    IF s = <<>> THEN 0
    ELSE LET v == DigitsValue(SubSeq(s, 1, Len(s) - 1)) * 10
                  + (CharCode(s[Len(s)]) - 48)
         IN IF v > 65535 THEN 65536 ELSE v

\* the decimal digits of a natural number
RECURSIVE NatToStr(_)
NatToStr(n) ==
    IF n < 10 THEN <<Digits[n + 1]>>
    ELSE NatToStr(n \div 10) \o <<Digits[(n % 10) + 1]>>

\* the segments of a path "/a/b/" -> <<a, b, "">>
RECURSIVE PathSegments(_)
PathSegments(p) ==
    IF p = <<>> THEN <<>>
    ELSE LET rest == Tail(p)
             e == FirstOf(rest, {"/"}, 1)
         IN <<SubSeq(rest, 1, e - 1)>> \o PathSegments(SliceFrom(rest, e - 1))

\* "." and ".." segments are resolved as the path state of the parser does
RECURSIVE ResolveDots(_, _)
ResolveDots(segs, stack) ==
    IF segs = <<>> THEN stack
    ELSE LET seg == Head(segs)
             last == Len(segs) = 1
             popped == IF stack = <<>> THEN stack
                       ELSE SubSeq(stack, 1, Len(stack) - 1)
         IN IF seg = <<".", ".">>
            THEN ResolveDots(Tail(segs),
                             IF last THEN Append(popped, <<>>) ELSE popped)
            ELSE IF seg = <<".">>
            THEN ResolveDots(Tail(segs),
                             IF last THEN Append(stack, <<>>) ELSE stack)
            ELSE ResolveDots(Tail(segs), Append(stack, seg))

RECURSIVE JoinPath(_)
JoinPath(segs) ==
    IF segs = <<>> THEN <<>> ELSE <<"/">> \o Head(segs) \o JoinPath(Tail(segs))

ParseFailure ==
    [ok |-> FALSE, special |-> FALSE, scheme |-> <<>>, host |-> <<>>,
     port |-> <<>>, pathname |-> <<>>, search |-> <<>>, hash |-> <<>>]

\* authority, path, query and fragment of what follows "scheme:" (and the
\* slashes before the authority)
ParseAfterAuthorityStart(scheme, special, rest) ==
    LET authEnd == FirstOf(rest, {"/", "?", "#"}, 1)
        authority == SubSeq(rest, 1, authEnd - 1)
        colon == FirstOf(authority, {":"}, 1)
        rawHost == SubSeq(authority, 1, colon - 1)
        rawPort == SliceFrom(authority, colon)
        tail == SliceFrom(rest, authEnd - 1)
        pathEnd == FirstOf(tail, {"?", "#"}, 1)
        rawPath == SubSeq(tail, 1, pathEnd - 1)
        afterPath == SliceFrom(tail, pathEnd - 1)
        hashAt == FirstOf(afterPath, {"#"}, 1)
        rawQuery == SubSeq(afterPath, 1, hashAt - 1)
        rawHash == SliceFrom(afterPath, hashAt - 1)
        portValue == DigitsValue(rawPort)
        segs == ResolveDots(PathSegments(rawPath), <<>>)
    IN IF (special /\ rawHost = <<>>)
          \/ " " \in Range(rawHost)
          \/ (\E i \in 1..Len(rawPort) : ~IsDigit(rawPort[i]))
          \/ portValue > 65535
       THEN ParseFailure
       ELSE [ok |-> TRUE,
             special |-> special,
             scheme |-> scheme,
             host |-> IF special THEN ToLowerCase(rawHost) ELSE rawHost,
             port |-> IF rawPort = <<>> \/ portValue = DefaultPort(scheme)
                      THEN <<>> ELSE NatToStr(portValue),
             pathname |-> IF segs = <<>> /\ special THEN <<"/">>
                          ELSE JoinPath(segs),
             \* a lone "?" or "#" serialises as the empty string
             search |-> IF Len(rawQuery) <= 1 THEN <<>> ELSE rawQuery,
             hash |-> IF Len(rawHash) <= 1 THEN <<>> ELSE rawHash]

ParseUrl(input) ==
    LET s == Trim(input)
        colon == FirstOf(s, {":"}, 1)
    IN IF s = <<>> \/ ~IsAlpha(s[1]) \/ colon > Len(s)
          \/ (\E i \in 1..(colon - 1) : ~IsSchemeChar(s[i]))
       THEN ParseFailure
       ELSE LET scheme == ToLowerCase(SubSeq(s, 1, colon - 1))
                rest == SliceFrom(s, colon)
            IN IF scheme \in SpecialSchemes
               THEN ParseAfterAuthorityStart(scheme, TRUE, DropLeadingSlashes(rest))
               ELSE IF StartsWith(rest, <<"/", "/">>)
               THEN ParseAfterAuthorityStart(scheme, FALSE, SliceFrom(rest, 2))
               ELSE LET pathEnd == FirstOf(rest, {"?", "#"}, 1)
                        afterPath == SliceFrom(rest, pathEnd - 1)
                        hashAt == FirstOf(afterPath, {"#"}, 1)
                        rawPath == SubSeq(rest, 1, pathEnd - 1)
                        rawQuery == SubSeq(afterPath, 1, hashAt - 1)
                        rawHash == SliceFrom(afterPath, hashAt - 1)
                    IN [ok |-> TRUE, special |-> FALSE, scheme |-> scheme,
                        host |-> <<>>, port |-> <<>>,
                        pathname |-> IF rawPath # <<>> /\ Head(rawPath) = "/"
                                     THEN JoinPath(ResolveDots(PathSegments(rawPath), <<>>))
                                     ELSE rawPath,
                        search |-> IF Len(rawQuery) <= 1 THEN <<>> ELSE rawQuery,
                        hash |-> IF Len(rawHash) <= 1 THEN <<>> ELSE rawHash]

\* URL.prototype.origin
UrlOrigin(u) ==
    IF u.special
    THEN u.scheme \o Str_colonSlashSlash \o u.host
         \o (IF u.port = <<>> THEN <<>> ELSE <<":">> \o u.port)
    ELSE Str_null

\* URL.prototype.hostname
UrlHostname(u) == u.host

(***************************************************************************)
(* AnalysisService: URL helpers                                            *)
(***************************************************************************)
\* pathname.replace(/\/$/, ''): one trailing slash is removed
StripOneTrailingSlash(p) ==
    IF p # <<>> /\ p[Len(p)] = "/" THEN SubSeq(p, 1, Len(p) - 1) ELSE p

normalizeUrlForMatch(url) ==
    LET u == ParseUrl(url)
    IN IF u.ok
       THEN ToLowerCase(UrlOrigin(u)) \o StripOneTrailingSlash(u.pathname)
       ELSE ToLowerCase(url)

\* a plain prefix test, without the '/' after normalizedSite
urlMatchesAnyPrefix(sourceUrl, normalizedSite) ==
    LET s == normalizeUrlForMatch(sourceUrl)
    IN s = normalizedSite \/ StartsWith(s, normalizedSite)

urlMatches(sourceUrl, normalizedSite) ==
    LET s == normalizeUrlForMatch(sourceUrl)
    IN s = normalizedSite \/ StartsWith(s, normalizedSite \o <<"/">>)

\* the 'http://' prefix is assigned to urlStr itself, so the catch branch
\* returns the prefixed string
domainKey(urlStr) ==
    LET prefixed == IF ~StartsWith(urlStr, Str_http)
                    THEN Str_http \o Str_colonSlashSlash \o urlStr
                    ELSE urlStr
        u == ParseUrl(prefixed)
    IN IF u.ok
       THEN IF StartsWith(UrlHostname(u), Str_www)
            THEN SliceFrom(UrlHostname(u), 4)
            ELSE UrlHostname(u)
       ELSE prefixed

(***************************************************************************)
(* AnalysisService.groupSources                                            *)
(***************************************************************************)
\* countByUrl: a Map keeps its keys in the order of their first insertion
\* countByUrl.set(u, 1): a repeated URL is not counted again
CountUrlOnce(before, u) ==
    IF \E i \in 1..Len(before) : before[i].url = u
    THEN before
    ELSE Append(before, [url |-> u, count |-> 1])

\* countByUrl.set(u, (countByUrl.get(u) ?? 0) + 1)
CountUrl(before, u) ==
    IF \E i \in 1..Len(before) : before[i].url = u
    THEN [i \in 1..Len(before) |->
             IF before[i].url = u
             THEN [before[i] EXCEPT !.count = @ + 1]
             ELSE before[i]]
    ELSE Append(before, [url |-> u, count |-> 1])

RECURSIVE CountByUrl(_)
CountByUrl(sourceUrls) ==
    IF sourceUrls = <<>> THEN <<>>
    ELSE CountUrl(CountByUrl(SubSeq(sourceUrls, 1, Len(sourceUrls) - 1)),
                  sourceUrls[Len(sourceUrls)])

\* without entry.urls.add(url): a later URL of a known domain is counted but
\* not kept
MergeIntoDomainWithoutUrl(before, e, domain) ==
    IF \E i \in 1..Len(before) : before[i].domain = domain
    THEN [i \in 1..Len(before) |->
             IF before[i].domain = domain
             THEN [before[i] EXCEPT !.count = @ + e.count]
             ELSE before[i]]
    ELSE Append(before,
                [domain |-> domain, count |-> e.count, urls |-> <<e.url>>])

\* byDomain: one accumulator per domain key, in the order of first insertion;
\* the body of the loop over countByUrl, for the entry e of domain key domain
MergeIntoDomain(before, e, domain) ==
    IF \E i \in 1..Len(before) : before[i].domain = domain
    THEN [i \in 1..Len(before) |->
             IF before[i].domain = domain
             THEN [before[i] EXCEPT !.count = @ + e.count,
                                    !.urls = Append(@, e.url)]
             ELSE before[i]]
    ELSE Append(before,
                [domain |-> domain, count |-> e.count, urls |-> <<e.url>>])

RECURSIVE ByDomain(_)
ByDomain(counted) ==
    IF counted = <<>> THEN <<>>
    ELSE MergeIntoDomain(ByDomain(SubSeq(counted, 1, Len(counted) - 1)),
                         counted[Len(counted)],
                         domainKey(counted[Len(counted)].url))

\* [...urls].sort(): insertion into the sorted prefix
InsertAt(sorted, x, k) ==
    SubSeq(sorted, 1, k) \o <<x>> \o SubSeq(sorted, k + 1, Len(sorted))

InsertString(sorted, x) ==
    InsertAt(sorted, x,
             Cardinality({i \in 1..Len(sorted) : ~StrLess(x, sorted[i])}))

RECURSIVE SortStrings(_)
SortStrings(strs) ==
    IF strs = <<>> THEN <<>>
    ELSE InsertString(SortStrings(SubSeq(strs, 1, Len(strs) - 1)), strs[Len(strs)])

\* .sort((a, b) => b.count - a.count): Array.prototype.sort is stable, so
\* entries of equal count keep their insertion order
InsertByCount(sorted, x) ==
    InsertAt(sorted, x,
             Cardinality({i \in 1..Len(sorted) : sorted[i].count >= x.count}))

RECURSIVE SortByCountDesc(_)
SortByCountDesc(entries) ==
    IF entries = <<>> THEN <<>>
    ELSE InsertByCount(SortByCountDesc(SubSeq(entries, 1, Len(entries) - 1)),
                       entries[Len(entries)])

\* .map(([domain, { count, urls }]) => ({ domain, count, urls: [...urls].sort(),
\* category: 'other' }))
ToEntries(byDomain) ==
    [i \in 1..Len(byDomain) |->
        [domain |-> byDomain[i].domain,
         count |-> byDomain[i].count,
         urls |-> SortStrings(byDomain[i].urls),
         category |-> "other"]]

groupSources(sourceUrls) ==
    SortByCountDesc(ToEntries(ByDomain(CountByUrl(sourceUrls))))

(***************************************************************************)
(* geo-score.types: SourceCategory                                         *)
(***************************************************************************)
SOURCE_CATEGORIES ==
    {"social_media", "shopping", "forums_qa", "review_editorial",
     "news_press", "other"}

\* a guard that accepts every value
isSourceCategoryAny(s) == TRUE

isSourceCategory(s) == s \in SOURCE_CATEGORIES

(***************************************************************************)
(* AnalysisService.classifyDomains                                         *)
(*                                                                         *)
(* A reply of the chat-completions endpoint is                             *)
(*   [kind, entries]: kind is "fetch_rejects", "not_ok", "no_content",     *)
(*   "bad_json" or "ok"; entries are the key/value pairs of the parsed     *)
(*   JSON object, in Object.entries order.                                 *)
(***************************************************************************)
ClassifyFailureKinds == {"fetch_rejects", "not_ok", "no_content", "bad_json"}

\* the first value stored under a domain is kept
SetEntryKeepFirst(before, domain, val) ==
    IF \E i \in 1..Len(before) : before[i].key = domain
    THEN before
    ELSE Append(before, [key |-> domain, val |-> val])

\* the loop over Object.entries(parsed): a later key overwrites an earlier one
\* out[domain] = val
SetEntry(before, domain, val) ==
    IF \E i \in 1..Len(before) : before[i].key = domain
    THEN [i \in 1..Len(before) |->
             IF before[i].key = domain
             THEN [before[i] EXCEPT !.val = val] ELSE before[i]]
    ELSE Append(before, [key |-> domain, val |-> val])

StripWww(lowered) ==
    IF StartsWith(lowered, Str_www) THEN SliceFrom(lowered, 4) ELSE lowered

RECURSIVE NormalizeEntries(_)
NormalizeEntries(entries) ==
    IF entries = <<>> THEN <<>>
    ELSE SetEntry(NormalizeEntries(SubSeq(entries, 1, Len(entries) - 1)),
                  StripWww(Trim(ToLowerCase(entries[Len(entries)].key))),
                  IF isSourceCategory(entries[Len(entries)].val)
                  THEN entries[Len(entries)].val ELSE "other")

\* the try block of classifyDomains: [threw, map]
ClassifyTry(reply) ==
    IF reply.kind \in {"fetch_rejects", "not_ok", "bad_json"}
    THEN [threw |-> TRUE, map |-> <<>>]
    ELSE IF reply.kind = "no_content"
    THEN [threw |-> FALSE, map |-> <<>>]
    ELSE [threw |-> FALSE, map |-> NormalizeEntries(reply.entries)]

\* without the catch block an exception of the try block leaves classifyDomains
ClassifyCatchRethrows(attempt) == attempt

\* the catch block: every exception of the try block becomes the empty map
ClassifyCatch(attempt) ==
    IF attempt.threw THEN [threw |-> FALSE, map |-> <<>>] ELSE attempt

\* classifyDomains for a non-empty domain list, given the service's reply
classifyDomains(reply) == ClassifyCatch(ClassifyTry(reply))

\* categoryMap[domain] ?? 'other' (cited hosts are never names of
\* Object.prototype members)
CategoryOf(categoryMap, domain) ==
    IF \E i \in 1..Len(categoryMap) : categoryMap[i].key = domain
    THEN categoryMap[CHOOSE i \in 1..Len(categoryMap) :
                         categoryMap[i].key = domain].val
    ELSE "other"

AssignCategories(grouped, categoryMap) ==
    [i \in 1..Len(grouped) |->
        [grouped[i] EXCEPT !.category = CategoryOf(categoryMap, grouped[i].domain)]]

(***************************************************************************)
(* AnalysisService.getNumSearchPrompts                                     *)
(***************************************************************************)
RECURSIVE DigitPrefix(_)
DigitPrefix(s) ==
    IF s # <<>> /\ IsDigit(Head(s)) THEN <<Head(s)>> \o DigitPrefix(Tail(s))
    ELSE <<>>

RECURSIVE DecimalValue(_)
DecimalValue(ds) ==
    IF ds = <<>> THEN 0
    ELSE DecimalValue(SubSeq(ds, 1, Len(ds) - 1)) * 10 + (CharCode(ds[Len(ds)]) - 48)

\* parseInt(s, 10): [nan, val]
parseInt(s) ==
    LET t == TrimStart(s)
        signed == t # <<>> /\ Head(t) \in {"+", "-"}
        body == IF signed THEN Tail(t) ELSE t
        ds == DigitPrefix(body)
    IN IF ds = <<>> THEN [nan |-> TRUE, val |-> 0]
       ELSE [nan |-> FALSE,
             val |-> IF signed /\ Head(t) = "-"
                     THEN 0 - DecimalValue(ds) ELSE DecimalValue(ds)]

Min(a, b) == IF a < b THEN a ELSE b

Max(a, b) == IF a > b THEN a ELSE b

Str_10 == <<"1", "0">>

\* without the upper clamp
ClampMaxMissing(n) == n

\* the upper clamp Math.min(10, .)
ClampMax(n) == Min(10, n)

\* environment e = [apiKey: BOOLEAN, numSet: BOOLEAN, num: string]
getNumSearchPrompts(e) ==
    LET parsed == parseInt(IF e.numSet THEN e.num ELSE Str_10)
        orTen == IF parsed.nan \/ parsed.val = 0 THEN 10 ELSE parsed.val
    IN ClampMax(Max(1, orTen))

(***************************************************************************)
(* Bounds and input pools of the pipeline model                            *)
(***************************************************************************)
\* prompts the text-generation service returns at most (pipeline runs)
MaxLlmPrompts == 2

\* prompts the text-generation service returns at most (prompt-count runs)
MaxLlmPromptsWide == 12

\* internal queries one search call reports at most
MaxQueries == 2

\* cited URLs in one list handed to groupSources on its own
MaxUrls == 3

\* slashes at the end of the paths handed to the URL helpers on their own
MaxTrailingSlashes == 2

\* pages of the larger crawled site
MaxSitePages == 12

\* internalPrompts of the GeoScoreResult the web client shows
MaxInternalPrompts == 6

\* submits of the form of the web client
MaxSubmits == 2

\* pages handed to contentForAnalysis on its own
MaxAssembledPages == 3

Url_target == <<"h","t","t","p","s",":","/","/","t","a","r","g","e","t",".","c","o","m">>

Url_targetPage == Url_target \o <<"/","p","a","g","e">>

Url_other == <<"h","t","t","p","s",":","/","/","o","t","h","e","r",".","c","o","m">>

Url_wwwTarget ==
    <<"h","t","t","p","s",":","/","/","W","W","W",".","t","a","r","g","e","t",".","c","o","m","/">>

\* the url argument of runGeoScorePipeline
TargetPool == {Url_target}

\* action.sources of a search reply; the empty string stands for an entry
\* without a url
SourceListPool ==
    {<<>>,
     <<Url_other>>,
     <<Url_wwwTarget, <<>>, Url_other, Url_targetPage, Url_wwwTarget>>}

Str_1 == <<"1">>

Str_0 == <<"0">>

Str_minus3 == <<"-", "3">>

Str_11 == <<"1", "1">>

Str_7px == <<" ", "7", "p", "x">>

Str_abc == <<"a", "b", "c">>

EnvOf(key, numSet, num) == [apiKey |-> key, numSet |-> numSet, num |-> num]

\* process.env of a pipeline run
EnvPool ==
    {EnvOf(k, FALSE, <<>>) : k \in BOOLEAN} \cup {EnvOf(TRUE, TRUE, Str_1)}

\* process.env of a prompt-count run: NUM_SEARCH_PROMPTS absent, empty,
\* non-numeric, zero, negative, in range, with a suffix, above 10
EnvPoolWide ==
    {EnvOf(TRUE, FALSE, <<>>)} \cup
    {EnvOf(TRUE, TRUE, n) :
        n \in {<<>>, Str_abc, Str_0, Str_minus3, Str_1, Str_7px, Str_10, Str_11}}

Prompt(j) == <<"p", j>>

\* what the text-generation service answers to generateSearchPrompts:
\* the call rejects, the output has no prompts array, or it has one
LlmReplies(max) ==
    {[kind |-> "rejects", prompts |-> <<>>],
     [kind |-> "no_object", prompts |-> <<>>]} \cup
    {[kind |-> "object", prompts |-> [j \in 1..n |-> Prompt(j)]] : n \in 0..max}

\* a query as the search service reports it: the text, possibly still
\* carrying the instruction prefix of the request
Query(p, k) == [prefixed |-> k = 1, text |-> <<"q", p[2], k>>]

SearchFailureKinds == {"fetch_rejects", "bad_json", "not_ok"}

\* what the search service answers to the call for userPrompt
SearchReplies(userPrompt) ==
    {[kind |-> f, queries |-> <<>>, sources |-> <<>>] : f \in SearchFailureKinds}
    \cup
    {[kind |-> "ok",
      queries |-> [k \in 1..m |-> Query(userPrompt, k)],
      sources |-> l] : m \in 0..MaxQueries, l \in SourceListPool}

Str_WWW == <<"W","W","W",".">>

\* what the classification service answers to a request for domains: a
\* failure, an object with one key per domain, or an object that names the
\* first domain under two keys
ClassifyReplies(domains) ==
    {[kind |-> f, entries |-> <<>>] : f \in ClassifyFailureKinds}
    \cup
    {[kind |-> "ok",
      entries |-> [i \in 1..Len(domains) |->
                      [key |-> Str_WWW \o domains[i] \o <<" ">>,
                       val |-> IF i = 1 THEN "forums_qa" ELSE "blog"]]],
     [kind |-> "ok",
      entries |-> <<[key |-> domains[1], val |-> "shopping"],
                    [key |-> Str_WWW \o domains[1], val |-> "news_press"]>>]}

(***************************************************************************)
(* AnalysisService.callResponsesApiWithWebSearch: the reply as a           *)
(* WebSearchCallResult                                                     *)
(***************************************************************************)
RECURSIVE NonEmptyUrls(_)
NonEmptyUrls(l) ==
    IF l = <<>> THEN <<>>
    ELSE IF Head(l) = <<>> THEN NonEmptyUrls(Tail(l))
    ELSE <<Head(l)>> \o NonEmptyUrls(Tail(l))

\* the two replace calls remove the instruction prefix
CleanQuery(q) == q.text

ParseSearchReply(reply) ==
    [internalPrompts |-> [k \in 1..Len(reply.queries) |-> CleanQuery(reply.queries[k])],
     sources |-> NonEmptyUrls(reply.sources)]

EmptyCallResult == [internalPrompts |-> <<>>, sources |-> <<>>]

(***************************************************************************)
(* AnalysisService.generateSearchPrompts                                   *)
(***************************************************************************)
\* Array.isArray(out?.prompts) ? out.prompts.slice(0, numSearchPrompts) : []
SlicePrompts(reply, numSearchPrompts) ==
    IF reply.kind = "object"
    THEN SubSeq(reply.prompts, 1, Min(Len(reply.prompts), numSearchPrompts))
    ELSE <<>>

(***************************************************************************)
(* AnalysisService.runGeoScorePipeline: the steps after the join           *)
(***************************************************************************)
RECURSIVE Flatten(_)
Flatten(seqs) == IF seqs = <<>> THEN <<>> ELSE Head(seqs) \o Flatten(Tail(seqs))

\* Math.round of the non-negative quotient a / b
RoundDiv(a, b) == (2 * a + b) \div (2 * b)

\* with every in the place of some
LikelihoodEvery(sources, normalizedSite) ==
    IF \A i \in 1..Len(sources) : urlMatches(sources[i], normalizedSite)
    THEN 100 ELSE 0

\* result.sources.some(s => this.urlMatches(s, normalizedSite)) ? 100 : 0
Likelihood(sources, normalizedSite) ==
    IF \E i \in 1..Len(sources) : urlMatches(sources[i], normalizedSite)
    THEN 100 ELSE 0

\* one PromptResult per search result instead of one per internal prompt
PromptResultsOfOnePerResult(r, groupedSources, likelihood) ==
    [k \in 1..Min(1, Len(r.internalPrompts)) |->
        [prompt |-> r.internalPrompts[k],
         apparitionLikelihood |-> likelihood,
         sources |-> groupedSources]]

\* a search result without internal prompts still gets one PromptResult
PromptResultsOfNeverEmpty(r, groupedSources, likelihood) ==
    IF r.internalPrompts = <<>>
    THEN <<[prompt |-> <<>>,
            apparitionLikelihood |-> likelihood,
            sources |-> groupedSources]>>
    ELSE [k \in 1..Len(r.internalPrompts) |->
             [prompt |-> r.internalPrompts[k],
              apparitionLikelihood |-> likelihood,
              sources |-> groupedSources]]

\* the inner loop: the PromptResults pushed for one search result
PromptResultsOf(r, groupedSources, likelihood) ==
    [k \in 1..Len(r.internalPrompts) |->
        [prompt |-> r.internalPrompts[k],
         apparitionLikelihood |-> likelihood,
         sources |-> groupedSources]]

RECURSIVE BuildPromptResults(_, _)
BuildPromptResults(results, normalizedSite) ==
    IF results = <<>> THEN <<>>
    ELSE BuildPromptResults(SubSeq(results, 1, Len(results) - 1), normalizedSite)
         \o PromptResultsOf(results[Len(results)],
                            groupSources(results[Len(results)].sources),
                            Likelihood(results[Len(results)].sources, normalizedSite))

\* the increment placed outside the loop over the internal prompts: once
\* per search result that cites the site
RECURSIVE PromptsWhereSiteAppearedPerResult(_, _)
PromptsWhereSiteAppearedPerResult(results, normalizedSite) ==
    IF results = <<>> THEN 0
    ELSE PromptsWhereSiteAppearedPerResult(
             SubSeq(results, 1, Len(results) - 1), normalizedSite)
         + (IF Likelihood(results[Len(results)].sources, normalizedSite) = 100
            THEN 1 ELSE 0)

\* promptsWhereSiteAppeared is incremented inside the loop over the
\* internal prompts, once per PromptResult pushed with likelihood 100
RECURSIVE PromptsWhereSiteAppeared(_, _)
PromptsWhereSiteAppeared(results, normalizedSite) ==
    IF results = <<>> THEN 0
    ELSE PromptsWhereSiteAppeared(SubSeq(results, 1, Len(results) - 1), normalizedSite)
         + (IF Likelihood(results[Len(results)].sources, normalizedSite) = 100
            THEN Len(results[Len(results)].internalPrompts) ELSE 0)

ComputeScore(appeared, total) ==
    IF total = 0 THEN 0 ELSE RoundDiv(100 * appeared, total)

\* Array.from(uniqueDomains): a Set keeps first-insertion order
RECURSIVE Unique(_)
Unique(s) ==
    IF s = <<>> THEN <<>>
    ELSE LET before == Unique(SubSeq(s, 1, Len(s) - 1))
         IN IF s[Len(s)] \in Range(before) THEN before
            ELSE Append(before, s[Len(s)])

DomainsOf(grouped) == [i \in 1..Len(grouped) |-> grouped[i].domain]

\* the domains of the promptResults added before those of the global sources
UniqueDomainsPromptResultsFirst(sources, promptResults) ==
    Unique(Flatten([j \in 1..Len(promptResults) |->
                       DomainsOf(promptResults[j].sources)])
           \o DomainsOf(sources))

UniqueDomains(sources, promptResults) ==
    Unique(DomainsOf(sources)
           \o Flatten([j \in 1..Len(promptResults) |->
                          DomainsOf(promptResults[j].sources)]))

\* the locals of runGeoScorePipeline that are live across the await of
\* classifyDomains
AggregateWith(results, normalizedSite, promptResults) ==
    [allInternalPrompts |->
        Flatten([i \in 1..Len(results) |-> results[i].internalPrompts]),
     sources |->
        groupSources(Flatten([i \in 1..Len(results) |-> results[i].sources])),
     promptResults |-> promptResults,
     score |-> ComputeScore(PromptsWhereSiteAppeared(results, normalizedSite),
                            Len(promptResults))]

AggregateFor(results, normalizedSite) ==
    AggregateWith(results, normalizedSite,
                  BuildPromptResults(results, normalizedSite))

Aggregate(results, siteUrl) ==
    AggregateFor(results, normalizeUrlForMatch(siteUrl))

EmptyLocals ==
    [allInternalPrompts |-> <<>>, sources |-> <<>>, promptResults |-> <<>>,
     score |-> 0]

\* stripProxies copies plain objects, arrays and primitives field by field
stripProxies(obj) == obj

\* the payload, after the categories are assigned
Payload(l, categoryMap, e, prompts) ==
    stripProxies(
        [score |-> l.score,
         numSearchPrompts |-> getNumSearchPrompts(e),
         internalPrompts |-> l.allInternalPrompts,
         generatedPrompts |-> prompts,
         sources |-> AssignCategories(l.sources, categoryMap),
         promptResults |->
             [j \in 1..Len(l.promptResults) |->
                 [l.promptResults[j] EXCEPT
                     !.sources = AssignCategories(@, categoryMap)]]])

(***************************************************************************)
(* State of one runGeoScorePipeline invocation and of the services it      *)
(* calls                                                                   *)
(***************************************************************************)
VARIABLES
    env,               \* process.env: OPENAI_API_KEY set, NUM_SEARCH_PROMPTS
    url,               \* the url argument
    llmReply,          \* the answer the text-generation service will give
    pc,                \* "idle", "generating", "searching", "classifying",
                       \* "done" (returned) or "failed" (threw)
    error,             \* the error thrown, <<>> when none
    llmRequests,       \* number of text-generation requests issued
    generatedPrompts,  \* the local generatedPrompts
    searchRequests,    \* prompts of the search requests issued, in issue order
    callStatus,        \* per search call: "not_started", "pending", "ok", "failed"
    callResult,        \* per search call: the WebSearchCallResult it resolved with
    completionOrder,   \* indices of the settled search calls, in settling order
    locals,            \* allInternalPrompts, sources, promptResults, score
    classifyRequests,  \* domain lists of the classification requests issued
    classifyReply,     \* the classification reply received, <<>> when none
    result             \* <<payload>> once returned, <<>> otherwise

\* one call of a helper of AnalysisService on its own
VARIABLES
    fn,                \* the helper that was called, "none" before the call
    arg,               \* the arguments of the call
    out                \* what the call returned, <<>> before the call

helperVars == <<fn, arg, out>>

\* one invocation of CrawlService.crawlSite and the site it crawls
VARIABLES
    siteUrl,           \* the siteUrl argument
    site,              \* what the site answers to a fetch
    crawlPc,           \* "idle", "looping" (in the while loop) or "returned"
    base,              \* the local base
    seen,              \* the local seen, a Set of strings
    queue,             \* the local queue
    results,           \* the local results; the returned list once returned
    fetched            \* the URLs handed to fetch, in order

crawlVars == <<siteUrl, site, crawlPc, base, seen, queue, results, fetched>>

\* one call of analyzeWebsite or of generateContentStrategy; both call
\* crawlSite, and both read process.env and call the text-generation service
\* (env, llmRequests and error above)
VARIABLES
    servicePc,         \* "none", or the position in the method that was called
    suspended,         \* generateContentStrategy: the locals of its crawlSite
                       \* invocations, as each left them at its last await
    running            \* the invocation whose locals are base .. fetched above

serviceVars == <<servicePc, suspended, running>>

\* the Home component of the web client (page.tsx): its React state, its
\* ref, and the two requests it may have in flight
VARIABLES
    step,              \* 1, 2 or 3
    typedUrl,          \* the state url: the text of the input
    loading1,          \* TRUE while handleAnalyze waits for /analyze
    error1,            \* <<>> for null, <<message>> otherwise
    analysis,          \* the state result: <<>> for null, <<data>> otherwise
    loading2,
    error2,
    geoResult,         \* <<>> for null, <<number of internalPrompts>> otherwise
    selectedQueries,   \* a Set of indices into geoResult.internalPrompts
    fetchTriggeredRef, \* fetchTriggeredRef.current
    analyzePending,    \* handleAnalyze is suspended at its await of fetch
    geoPending,        \* fetchGeo is suspended at its await of fetch
    isMounted,         \* the isMounted of the effect run that called fetchGeo
    cleanup,           \* the last effect run returned its cleanup function
    analyzeRequests,   \* number of POST /analyze requests issued
    geoRequests,       \* number of POST /analyze/geo-score requests issued
    lastToggle         \* the argument of the last toggleQuery call, -1 if none

clientVars ==
    <<step, typedUrl, loading1, error1, analysis, loading2, error2, geoResult,
      selectedQueries, fetchTriggeredRef, analyzePending, geoPending,
      isMounted, cleanup, analyzeRequests, geoRequests, lastToggle>>

pipelineVars ==
    <<env, url, llmReply, pc, error, llmRequests, generatedPrompts,
      searchRequests, callStatus, callResult, completionOrder, locals,
      classifyRequests, classifyReply, result>>

\* the state outside runGeoScorePipeline
otherVars == <<helperVars, crawlVars, serviceVars, clientVars>>

vars ==
    <<env, url, llmReply, pc, error, llmRequests, generatedPrompts,
      searchRequests, callStatus, callResult, completionOrder, locals,
      classifyRequests, classifyReply, result, fn, arg, out,
      siteUrl, site, crawlPc, base, seen, queue, results, fetched,
      servicePc, suspended, running,
      step, typedUrl, loading1, error1, analysis, loading2, error2, geoResult,
      selectedQueries, fetchTriggeredRef, analyzePending, geoPending,
      isMounted, cleanup, analyzeRequests, geoRequests, lastToggle>>

\* crawlSite is not called
NoCrawl ==
    /\ siteUrl = <<>>
    /\ site = <<>>
    /\ crawlPc = "idle"
    /\ base = <<>>
    /\ seen = {}
    /\ queue = <<>>
    /\ results = <<>>
    /\ fetched = <<>>

\* no helper is called on its own
NoHelperCall == fn = "none" /\ arg = <<>> /\ out = <<>>

Err_noApiKey == <<"OPENAI_API_KEY is not set">>

Err_noPrompts == <<"Failed to generate search prompts">>

Err_llm == <<"generateText rejected">>

SearchError(kind, i) == <<"search call failed", kind, i>>

PipelineInit(envs, replies) ==
    /\ env \in envs
    /\ url \in TargetPool
    /\ llmReply \in replies
    /\ pc = "idle"
    /\ error = <<>>
    /\ llmRequests = 0
    /\ generatedPrompts = <<>>
    /\ searchRequests = <<>>
    /\ callStatus = <<>>
    /\ callResult = <<>>
    /\ completionOrder = <<>>
    /\ locals = EmptyLocals
    /\ classifyRequests = <<>>
    /\ classifyReply = <<>>
    /\ result = <<>>

\* neither analyzeWebsite nor generateContentStrategy is called
NoServiceCall == servicePc = "none" /\ suspended = <<>> /\ running = 0

\* the page is not open: the state of Home as it is before the component
\* is mounted
NoClient ==
    /\ step = 1
    /\ typedUrl = <<>>
    /\ loading1 = FALSE
    /\ error1 = <<>>
    /\ analysis = <<>>
    /\ loading2 = FALSE
    /\ error2 = <<>>
    /\ geoResult = <<>>
    /\ selectedQueries = {}
    /\ fetchTriggeredRef = FALSE
    /\ analyzePending = FALSE
    /\ geoPending = FALSE
    /\ isMounted = FALSE
    /\ cleanup = FALSE
    /\ analyzeRequests = 0
    /\ geoRequests = 0
    /\ lastToggle = -1

\* no method of AnalysisService is called
NoPipelineRun ==
    /\ PipelineInit({EnvOf(TRUE, FALSE, <<>>)}, {[kind |-> "rejects", prompts |-> <<>>]})
    /\ NoServiceCall

InitWith(envs, maxLlm) ==
    /\ NoClient
    /\ PipelineInit(envs, LlmReplies(maxLlm))
    /\ NoServiceCall
    /\ NoHelperCall
    /\ NoCrawl

Init == InitWith(EnvPool, MaxLlmPrompts)

\* a best-effort join (Promise.allSettled): fulfilled once every promise
\* has settled, never rejected
PromiseAllSettledState(statuses) ==
    IF \A i \in 1..Len(statuses) : statuses[i] \in {"ok", "failed"}
    THEN "fulfilled" ELSE "pending"

\* Promise.all(promises): rejected as soon as one promise is rejected,
\* fulfilled once every promise is fulfilled
PromiseAllState(statuses) ==
    IF \E i \in 1..Len(statuses) : statuses[i] = "failed" THEN "rejected"
    ELSE IF \A i \in 1..Len(statuses) : statuses[i] = "ok" THEN "fulfilled"
    ELSE "pending"

\* the values in the order in which the promises settled
PromiseAllValuesBySettling(values, order) ==
    [i \in 1..Len(values) |-> values[order[i]]]

\* the value Promise.all fulfils with: the values in the order of the
\* promises passed in, whatever the order in which they settled
PromiseAllValues(values, order) == [i \in 1..Len(values) |-> values[i]]

\* a loop that awaits each call before it starts the next one has started
\* only the first call when it first waits
StartedByAwaitingLoop(n) == 1..Min(1, n)

\* generatedPrompts.map(...) calls callResponsesApiWithWebSearch for every
\* prompt before the await; each call runs up to its fetch
StartedByMap(n) == 1..n

\* without the check of generatedPrompts.length
NoPromptsGuardMissing(prompts) == FALSE

\* if (generatedPrompts.length === 0) throw
NoPromptsGuard(prompts) == Len(prompts) = 0

\* lines 129-176 and, when no domain was cited, 180-203: the code that runs
\* when the await of Promise.all resumes with the joined results
ContinueWithDomains(l, domains) ==
    /\ locals' = l
    /\ IF domains = <<>>
       THEN /\ pc' = "done"
            /\ result' = <<Payload(l, <<>>, env, generatedPrompts)>>
            /\ classifyRequests' = classifyRequests
       ELSE /\ pc' = "classifying"
            /\ result' = result
            /\ classifyRequests' = Append(classifyRequests, domains)

\* the classification is requested while the score is still to be calculated
ContinueWithScorePending(l) ==
    ContinueWithDomains([l EXCEPT !.score = 0],
                        UniqueDomains(l.sources, l.promptResults))

ContinueWith(l) == ContinueWithDomains(l, UniqueDomains(l.sources, l.promptResults))

ContinueAfterJoin(joined) == ContinueWith(Aggregate(joined, url))

\* runGeoScorePipeline up to the await inside generateSearchPrompts
StartPipeline ==
    /\ pc = "idle"
    /\ IF ~env.apiKey
       THEN /\ pc' = "failed"
            /\ error' = Err_noApiKey
            /\ llmRequests' = llmRequests
       ELSE /\ pc' = "generating"
            /\ error' = error
            /\ llmRequests' = llmRequests + 1
    /\ UNCHANGED <<env, url, llmReply, generatedPrompts, searchRequests,
                   callStatus, callResult, completionOrder, locals,
                   classifyRequests, classifyReply, result>>
    /\ UNCHANGED otherVars

\* lines 115-126: the code that runs when generateSearchPrompts has returned
\* prompts
AfterGenerate(prompts, n) ==
    IF NoPromptsGuard(prompts)
    THEN /\ pc' = "failed"
         /\ error' = Err_noPrompts
         /\ generatedPrompts' = prompts
         /\ UNCHANGED <<searchRequests, callStatus, callResult, locals,
                        classifyRequests, result>>
    ELSE /\ generatedPrompts' = prompts
         /\ error' = error
         /\ searchRequests' =
                [k \in 1..Cardinality(StartedByMap(n)) |-> prompts[k]]
         /\ callStatus' = [i \in 1..n |->
                              IF i \in StartedByMap(n) THEN "pending"
                              ELSE "not_started"]
         /\ callResult' = [i \in 1..n |-> EmptyCallResult]
         /\ IF n = 0
            THEN ContinueAfterJoin(<<>>)
            ELSE /\ pc' = "searching"
                 /\ UNCHANGED <<locals, classifyRequests, result>>

\* generateText settles: generateSearchPrompts returns or throws, and
\* runGeoScorePipeline runs on to the await of Promise.all
GenerateReturns ==
    /\ pc = "generating"
    /\ IF llmReply.kind = "rejects"
       THEN /\ pc' = "failed"
            /\ error' = Err_llm
            /\ UNCHANGED <<generatedPrompts, searchRequests, callStatus,
                           callResult, locals, classifyRequests, result>>
       ELSE AfterGenerate(SlicePrompts(llmReply, getNumSearchPrompts(env)),
                          Len(SlicePrompts(llmReply, getNumSearchPrompts(env))))
    /\ UNCHANGED <<env, url, llmReply, llmRequests, completionOrder,
                   classifyReply>>
    /\ UNCHANGED otherVars

\* every rejected search call sets the error of the run, also one that
\* rejects after the run has failed
SearchCallFailsOverwriting(i, kind) ==
    /\ i \in 1..Len(callStatus)
    /\ callStatus[i] = "pending"
    /\ kind \in SearchFailureKinds
    /\ callStatus' = [callStatus EXCEPT ![i] = "failed"]
    /\ completionOrder' = Append(completionOrder, i)
    /\ pc' = "failed"
    /\ error' = SearchError(kind, i)
    /\ UNCHANGED <<locals, classifyRequests, result>>
    /\ UNCHANGED <<env, url, llmReply, llmRequests, generatedPrompts,
                   searchRequests, callResult, classifyReply>>
    /\ UNCHANGED otherVars

\* search call i rejects: its fetch rejects, its body is not JSON, or the
\* status is not a success
SearchCallFails(i, kind) ==
    /\ i \in 1..Len(callStatus)
    /\ callStatus[i] = "pending"
    /\ kind \in SearchFailureKinds
    /\ callStatus' = [callStatus EXCEPT ![i] = "failed"]
    /\ completionOrder' = Append(completionOrder, i)
    /\ IF pc = "searching" /\ PromiseAllState(callStatus') = "rejected"
       THEN /\ pc' = "failed"
            /\ error' = SearchError(kind, i)
            /\ UNCHANGED <<locals, classifyRequests, result>>
       ELSE IF pc = "searching" /\ PromiseAllState(callStatus') = "fulfilled"
       THEN /\ error' = error
            /\ ContinueAfterJoin(PromiseAllValues(callResult, completionOrder'))
       ELSE UNCHANGED <<pc, error, locals, classifyRequests, result>>
    /\ UNCHANGED <<env, url, llmReply, llmRequests, generatedPrompts,
                   searchRequests, callResult, classifyReply>>
    /\ UNCHANGED otherVars

\* search call i resolves with its WebSearchCallResult
SearchCallSucceeds(i, reply) ==
    /\ i \in 1..Len(callStatus)
    /\ callStatus[i] = "pending"
    /\ reply \in SearchReplies(generatedPrompts[i])
    /\ reply.kind = "ok"
    /\ callStatus' = [callStatus EXCEPT ![i] = "ok"]
    /\ callResult' = [callResult EXCEPT ![i] = ParseSearchReply(reply)]
    /\ completionOrder' = Append(completionOrder, i)
    /\ IF pc = "searching" /\ PromiseAllState(callStatus') = "rejected"
       THEN /\ pc' = "failed"
            /\ error' = SearchError("late", i)
            /\ UNCHANGED <<locals, classifyRequests, result>>
       ELSE IF pc = "searching" /\ PromiseAllState(callStatus') = "fulfilled"
       THEN /\ error' = error
            /\ ContinueAfterJoin(PromiseAllValues(callResult', completionOrder'))
       ELSE UNCHANGED <<pc, error, locals, classifyRequests, result>>
    /\ UNCHANGED <<env, url, llmReply, llmRequests, generatedPrompts,
                   searchRequests, classifyReply>>
    /\ UNCHANGED otherVars

\* lines 177-203: the code that runs when the await of classifyDomains resumes
AfterClassify(outcome, reply) ==
    IF outcome.threw
    THEN /\ pc' = "failed"
         /\ error' = <<"classifyDomains threw", reply.kind>>
         /\ result' = result
    ELSE /\ pc' = "done"
         /\ error' = error
         /\ result' = <<Payload(locals, outcome.map, env, generatedPrompts)>>

\* the classification request settles: classifyDomains returns, the
\* categories are assigned and the payload is returned
ClassifyReturns(reply) ==
    /\ pc = "classifying"
    /\ reply \in ClassifyReplies(classifyRequests[Len(classifyRequests)])
    /\ classifyReply' = <<reply>>
    /\ AfterClassify(classifyDomains(reply), reply)
    /\ UNCHANGED <<env, url, llmReply, llmRequests, generatedPrompts,
                   searchRequests, callStatus, callResult, completionOrder,
                   locals, classifyRequests>>
    /\ UNCHANGED otherVars

SomeSearchCallFails ==
    \E i \in 1..MaxLlmPrompts, kind \in SearchFailureKinds : SearchCallFails(i, kind)

SomeSearchCallSucceeds ==
    \E i \in 1..Len(callStatus) :
        \E reply \in SearchReplies(generatedPrompts[i]) : SearchCallSucceeds(i, reply)

SomeClassifyReturns ==
    \E domains \in {classifyRequests[k] : k \in 1..Len(classifyRequests)} :
        \E reply \in ClassifyReplies(domains) : ClassifyReturns(reply)

Next ==
    \/ StartPipeline
    \/ GenerateReturns
    \/ SomeSearchCallFails
    \/ SomeSearchCallSucceeds
    \/ SomeClassifyReturns

Spec == Init /\ [][Next]_vars

(***************************************************************************)
(* Prompt-count runs: every NUM_SEARCH_PROMPTS setting and replies of up   *)
(* to MaxLlmPromptsWide prompts, followed up to the fan-out                *)
(***************************************************************************)
InitPrompts == InitWith(EnvPoolWide, MaxLlmPromptsWide)

NextPrompts ==
    \/ StartPipeline
    \/ GenerateReturns

SpecPrompts == InitPrompts /\ [][NextPrompts]_vars

(***************************************************************************)
(* groupSources on its own: every list of up to MaxUrls cited URLs         *)
(***************************************************************************)
Str_unparsable == <<"a", " ", "b">>

\* cited URLs: two hosts, a second page of a host, a www. and upper-case
\* spelling of a host, and a string that is no URL
CitedUrlPool == {Url_target, Url_targetPage, Url_other, Url_wwwTarget, Str_unparsable}

RECURSIVE ListsUpTo(_, _)
ListsUpTo(pool, n) ==
    IF n = 0 THEN {<<>>}
    ELSE ListsUpTo(pool, n - 1)
         \cup {Append(l, x) : l \in {m \in ListsUpTo(pool, n - 1) : Len(m) = n - 1},
                              x \in pool}

InitGroup ==
    /\ NoClient
    /\ NoPipelineRun
    /\ NoCrawl
    /\ fn = "none"
    /\ arg \in ListsUpTo(CitedUrlPool, MaxUrls)
    /\ out = <<>>

CallGroupSources ==
    /\ fn = "none"
    /\ fn' = "groupSources"
    /\ out' = groupSources(arg)
    /\ UNCHANGED <<pipelineVars, crawlVars, serviceVars, clientVars, arg>>

NextGroup == CallGroupSources

SpecGroup == InitGroup /\ [][NextGroup]_vars

(***************************************************************************)
(* domainKey, normalizeUrlForMatch and urlMatches on their own             *)
(***************************************************************************)
SchemePool ==
    {<<"h","t","t","p","s",":","/","/">>, <<"H","T","T","P","S",":","/","/">>, <<>>, <<"f","t","p",":","/","/">>, <<"m","a","i","l","t","o",":">>,
     <<"h","t","t","p",":","/","/">>}

HostPool ==
    {<<"E","x","a","m","p","l","e",".","c","o","m">>,
     <<"W","W","W",".","E","x","a","m","p","l","e",".","c","o","m">>,
     <<"w","w","w",".","w","w","w",".","e","x","a","m","p","l","e",".","c","o","m">>,
     <<"e","x","a","m","p","l","e",".","c","o","m","p","a","n","y",".","c","o","m">>,
     <<"e","x","a"," ","m","p","l","e",".","c","o","m">>,
     <<"e","x","a","m","p","l","e",".","c","o","m",":","8","0","8","0">>}

RECURSIVE Slashes(_)
Slashes(k) == IF k = 0 THEN <<>> ELSE <<"/">> \o Slashes(k - 1)

TailPool ==
    {Slashes(k) : k \in 0..MaxTrailingSlashes}
    \cup {<<"/", "x">> \o Slashes(k) : k \in 0..MaxTrailingSlashes}
    \cup {<<"/","X","?","q","=","1","#","f">>, <<"/","a","/",".",".","/","b">>}

\* strings handed to domainKey and normalizeUrlForMatch
UrlStringPool == {sc \o h \o t : sc \in SchemePool, h \in HostPool, t \in TailPool}

Str_exampleSite == <<"h","t","t","p","s",":","/","/","e","x","a","m","p","l","e",".","c","o","m">>

\* the target URLs whose normalized form is handed to urlMatches
SitePool ==
    {Str_exampleSite,
     Str_exampleSite \o <<"/", "x", "/">>,
     <<"h","t","t","p","s",":","/","/","E","x","a","m","p","l","e",".","c","o","m","/","/">>,
     <<"e","x","a","m","p","l","e",".","c","o","m">>,
     Str_exampleSite \o <<":", "8", "0", "8", "0">>,
     <<"h","t","t","p","s",":","/","/","w","w","w",".","e","x","a","m","p","l","e",".","c","o","m">>}

InitUrl ==
    /\ NoClient
    /\ NoPipelineRun
    /\ NoCrawl
    /\ fn = "none"
    /\ out = <<>>
    /\ arg \in {<<u>> : u \in UrlStringPool}
               \cup {<<u, normalizeUrlForMatch(t)>> : u \in UrlStringPool, t \in SitePool}

CallDomainKey ==
    /\ fn = "none"
    /\ Len(arg) = 1
    /\ fn' = "domainKey"
    /\ out' = <<domainKey(arg[1])>>
    /\ UNCHANGED <<pipelineVars, crawlVars, serviceVars, clientVars, arg>>

CallNormalizeUrlForMatch ==
    /\ fn = "none"
    /\ Len(arg) = 1
    /\ fn' = "normalizeUrlForMatch"
    /\ out' = <<normalizeUrlForMatch(arg[1])>>
    /\ UNCHANGED <<pipelineVars, crawlVars, serviceVars, clientVars, arg>>

CallUrlMatches ==
    /\ fn = "none"
    /\ Len(arg) = 2
    /\ fn' = "urlMatches"
    /\ out' = <<urlMatches(arg[1], arg[2])>>
    /\ UNCHANGED <<pipelineVars, crawlVars, serviceVars, clientVars, arg>>

NextUrl ==
    \/ CallDomainKey
    \/ CallNormalizeUrlForMatch
    \/ CallUrlMatches

SpecUrl == InitUrl /\ [][NextUrl]_vars

(***************************************************************************)
(* CrawlService: URL helpers                                               *)
(***************************************************************************)
MAX_PAGES == 10

\* URL.prototype.toString(): the serialisation of a parsed URL (the URLs of
\* the model carry no empty query and no empty fragment)
UrlToString(u) ==
    u.scheme \o <<":">>
    \o (IF u.special \/ u.host # <<>> THEN <<"/", "/">> \o u.host ELSE <<>>)
    \o (IF u.port = <<>> THEN <<>> ELSE <<":">> \o u.port)
    \o u.pathname \o u.search \o u.hash

\* u.hash = ''; u.search = ''
WithoutSearchAndHash(u) == [u EXCEPT !.search = <<>>, !.hash = <<>>]

\* str || u.origin
OrOrigin(str, u) == IF str = <<>> THEN UrlOrigin(u) ELSE str

normalizeBaseOf(u) ==
    IF ~u.ok \/ ~StartsWith(u.scheme \o <<":">>, Str_http) THEN <<>>
    ELSE OrOrigin(StripOneTrailingSlash(UrlToString(WithoutSearchAndHash(u))), u)

\* a seed without a scheme is read as an https URL
normalizeBaseAssumingHttps(siteUrlArg) ==
    IF ParseUrl(siteUrlArg).ok THEN normalizeBaseOf(ParseUrl(siteUrlArg))
    ELSE normalizeBaseOf(ParseUrl(Str_https \o <<":", "/", "/">> \o siteUrlArg))

normalizeBase(siteUrlArg) == normalizeBaseOf(ParseUrl(siteUrlArg))

\* path, query and fragment of a relative reference
SplitReference(r) ==
    LET pathEnd == FirstOf(r, {"?", "#"}, 1)
        afterPath == SliceFrom(r, pathEnd - 1)
        hashAt == FirstOf(afterPath, {"#"}, 1)
    IN [path |-> SubSeq(r, 1, pathEnd - 1),
        query |-> SubSeq(afterPath, 1, hashAt - 1),
        hash |-> SliceFrom(afterPath, hashAt - 1)]

\* the segments of the base path without the last one
WithoutLastSegment(segs) ==
    IF segs = <<>> THEN segs ELSE SubSeq(segs, 1, Len(segs) - 1)

\* the relative and relative-slash states of the parser: a reference without
\* a scheme, resolved against the parsed base b
ResolveReference(b, ref) ==
    [ok |-> TRUE, special |-> b.special, scheme |-> b.scheme,
     host |-> b.host, port |-> b.port,
     pathname |->
         IF ref.path = <<>> THEN b.pathname
         ELSE IF Head(ref.path) = "/"
         THEN JoinPath(ResolveDots(PathSegments(ref.path), <<>>))
         ELSE JoinPath(ResolveDots(PathSegments(<<"/">> \o ref.path),
                                   WithoutLastSegment(PathSegments(b.pathname)))),
     search |-> IF ref.path = <<>> /\ ref.query = <<>> THEN b.search ELSE ref.query,
     hash |-> ref.hash]

RelativeTo(b, r) ==
    IF StartsWith(r, <<"/", "/">>)
    THEN ParseAfterAuthorityStart(b.scheme, b.special,
                                  IF b.special THEN DropLeadingSlashes(r)
                                  ELSE SliceFrom(r, 2))
    ELSE ResolveReference(b, SplitReference(r))

HasScheme(str) ==
    /\ str # <<>>
    /\ IsAlpha(str[1])
    /\ FirstOf(str, {":"}, 1) <= Len(str)
    /\ \A i \in 1..(FirstOf(str, {":"}, 1) - 1) : IsSchemeChar(str[i])

\* a reference that repeats the special scheme of the base without "//"
\* after it is resolved like a reference without a scheme
RepeatsSchemeOf(b, str) ==
    /\ b.special
    /\ ToLowerCase(SubSeq(str, 1, FirstOf(str, {":"}, 1) - 1)) = b.scheme
    /\ ~StartsWith(SliceFrom(str, FirstOf(str, {":"}, 1)), <<"/", "/">>)

ParseAgainst(b, str) ==
    IF ~b.ok THEN ParseFailure
    ELSE IF HasScheme(str)
    THEN IF RepeatsSchemeOf(b, str)
         THEN RelativeTo(b, SliceFrom(str, FirstOf(str, {":"}, 1)))
         ELSE ParseUrl(str)
    ELSE IF ~b.special /\ b.host = <<>> THEN ParseFailure
    ELSE RelativeTo(b, str)

\* new URL(input, baseArg)
ParseUrlWithBase(input, baseArg) == ParseAgainst(ParseUrl(baseArg), Trim(input))

NullOrString(u) ==
    IF u.ok THEN [ok |-> TRUE, url |-> UrlToString(u)]
    ELSE [ok |-> FALSE, url |-> <<>>]

\* [ok, url]: ok is FALSE for null
toAbsolute(baseArg, href) == NullOrString(ParseUrlWithBase(href, baseArg))

SameOriginOf(b, u) == b.ok /\ u.ok /\ UrlOrigin(b) = UrlOrigin(u)

sameOrigin(baseArg, urlArg) == SameOriginOf(ParseUrl(baseArg), ParseUrl(urlArg))

(***************************************************************************)
(* The crawled site: page 0 is "/", page k is "/p<k>"; every page links    *)
(* to the next two pages and to itself, page 0 also carries the links a    *)
(* crawler has to skip or to resolve.  At most one page of a site answers  *)
(* badly.                                                                  *)
(***************************************************************************)
Str_siteHost == <<"x",".","c","o","m">>

Str_siteOrigin == <<"h","t","t","p","s",":","/","/","x",".","c","o","m">>

PagePath(k) == IF k = 0 THEN <<"/">> ELSE <<"/", "p">> \o NatToStr(k)

\* the page a path names, -1 when none
PageIndex(path) ==
    IF path = <<"/">> THEN 0
    ELSE IF Len(path) >= 3 /\ SubSeq(path, 1, 2) = <<"/", "p">>
            /\ \A i \in 3..Len(path) : IsDigit(path[i])
    THEN DigitsValue(SliceFrom(path, 2))
    ELSE -1

RootLinks ==
    <<<<"#","t","o","p">>, <<"m","a","i","l","t","o",":","a","@","x",".","c","o","m">>, <<>>, <<"/">>,
      <<"h","t","t","p","s",":","/","/","o","t","h","e","r",".","c","o","m","/","p","1">>, <<"/","p","1">>, <<"p","2">>,
      <<"/","p","1","#","s">>, <<"/","/","x",".","c","o","m","/","p","2">>, <<"H","T","T","P","S",":","/","/","X",".","c","o","m","/","p","1","?","v","=","1">>>>

LinksOf(k) ==
    (IF k = 0 THEN RootLinks ELSE <<>>)
    \o <<PagePath(k + 1), PagePath(k + 2), PagePath(k)>>

BadKinds == {"fetch_rejects", "not_ok", "not_html", "text_rejects", "short"}

Websites(sizes) ==
    {[pages |-> n, bad |-> -1, kind |-> "ok"] : n \in sizes}
    \cup {[pages |-> n, bad |-> k, kind |-> f] :
              n \in sizes, k \in 0..(MaxSitePages - 1), f \in BadKinds}

\* the extracted body text of page k: its length is what the crawler tests
TextOf(k, length) == [page |-> k, length |-> length]

NoResponse(kind) == [kind |-> kind, text |-> TextOf(-1, 0), hrefs |-> <<>>]

PageResponse(w, k) ==
    IF k < 0 \/ k >= w.pages THEN NoResponse("not_ok")
    ELSE IF k = w.bad /\ w.kind # "short" THEN NoResponse(w.kind)
    ELSE [kind |-> "ok",
          text |-> TextOf(k, IF k = w.bad THEN 100 ELSE 101 + k),
          hrefs |-> LinksOf(k)]

\* what fetch(url) and res.text() give: fetch rejects a string that is no
\* URL, a scheme other than http and https, and a host that does not
\* answer; the other host serves the same pages
RespondTo(w, u) ==
    IF ~u.ok \/ u.scheme \notin {<<"h","t","t","p">>, <<"h","t","t","p","s">>}
       \/ u.host \notin {Str_siteHost, <<"o", "t", "h", "e", "r", ".", "c", "o", "m">>}
    THEN NoResponse("fetch_rejects")
    ELSE PageResponse(w, PageIndex(u.pathname))

Respond(w, urlArg) == RespondTo(w, ParseUrl(urlArg))

(***************************************************************************)
(* CrawlService.crawlSite                                                  *)
(***************************************************************************)
SeedPool ==
    {Str_siteOrigin,
     <<"h","t","t","p","s",":","/","/","X",".","c","o","m","/","?","a","=","1","#","f">>,
     <<"f","t","p",":","/","/","x",".","c","o","m","/">>,
     <<"n","o","t"," ","a"," ","u","r","l">>,
     <<"x",".","c","o","m">>,
     <<"h","t","t","p","x",":","/","/","x",".","c","o","m","/">>}

InitCrawl ==
    /\ NoClient
    /\ NoPipelineRun
    /\ NoHelperCall
    /\ siteUrl \in SeedPool
    /\ site \in Websites({2, MaxSitePages})
    /\ crawlPc = "idle"
    /\ base = <<>>
    /\ seen = {}
    /\ queue = <<>>
    /\ results = <<>>
    /\ fetched = <<>>

\* a loop that stops only when the queue is empty
LoopGuardWithoutCap(q, collected) == q # <<>>

\* while (queue.length > 0 && results.length < MAX_PAGES)
LoopGuard(q, collected) == q # <<>> /\ Len(collected) < MAX_PAGES

\* every link that was not seen is followed
VisitAnyOrigin(acc, baseArg, absolute) ==
    IF absolute.ok /\ absolute.url \notin acc.seen
    THEN [seen |-> acc.seen \cup {absolute.url},
          queue |-> Append(acc.queue, absolute.url)]
    ELSE acc

\* a depth-first crawl: a discovered link goes to the front of the queue
VisitInFront(acc, baseArg, absolute) ==
    IF absolute.ok /\ sameOrigin(baseArg, absolute.url) /\ absolute.url \notin acc.seen
    THEN [seen |-> acc.seen \cup {absolute.url},
          queue |-> <<absolute.url>> \o acc.queue]
    ELSE acc

\* if (absolute && sameOrigin(base, absolute) && !seen.has(absolute))
Visit(acc, baseArg, absolute) ==
    IF absolute.ok /\ sameOrigin(baseArg, absolute.url) /\ absolute.url \notin acc.seen
    THEN [seen |-> acc.seen \cup {absolute.url},
          queue |-> Append(acc.queue, absolute.url)]
    ELSE acc

\* the callback of $('a[href]').each
EachHref(acc, baseArg, href) ==
    IF href = <<>> \/ StartsWith(href, <<"#">>)
       \/ StartsWith(href, <<"m", "a", "i", "l", "t", "o", ":">>)
    THEN acc
    ELSE Visit(acc, baseArg, toAbsolute(baseArg, href))

RECURSIVE DiscoverLinks(_, _, _)
DiscoverLinks(hrefs, baseArg, acc) ==
    IF hrefs = <<>> THEN acc
    ELSE EachHref(DiscoverLinks(SubSeq(hrefs, 1, Len(hrefs) - 1), baseArg, acc),
                  baseArg, hrefs[Len(hrefs)])

\* links are queued but not marked as seen
SetQueueOnly(acc) == seen' = seen /\ queue' = acc.queue

SetSeenAndQueue(acc) == seen' = acc.seen /\ queue' = acc.queue

\* a failed fetch stays at the head of the queue and is tried again
IterationRetrying(u, response) ==
    /\ fetched' = Append(fetched, u)
    /\ IF response.kind = "ok"
       THEN /\ results' = IF response.text.length > 100
                          THEN Append(results, [url |-> u, text |-> response.text])
                          ELSE results
            /\ SetSeenAndQueue(DiscoverLinks(response.hrefs, base,
                                             [seen |-> seen, queue |-> Tail(queue)]))
       ELSE /\ results' = results
            /\ seen' = seen
            /\ queue' = queue

\* the body of the loop for the URL u taken from the queue
IterationWith(u, response) ==
    /\ fetched' = Append(fetched, u)
    /\ IF response.kind = "ok"
       THEN /\ results' = IF response.text.length > 100
                          THEN Append(results, [url |-> u, text |-> response.text])
                          ELSE results
            /\ SetSeenAndQueue(DiscoverLinks(response.hrefs, base,
                                             [seen |-> seen, queue |-> Tail(queue)]))
       ELSE /\ results' = results
            /\ seen' = seen
            /\ queue' = Tail(queue)

\* lines 24-28
CrawlStart ==
    /\ crawlPc = "idle"
    /\ crawlPc' = "looping"
    /\ base' = normalizeBase(siteUrl)
    /\ seen' = {normalizeBase(siteUrl)}
    /\ queue' = <<normalizeBase(siteUrl)>>
    /\ results' = <<>>
    /\ UNCHANGED <<pipelineVars, helperVars, serviceVars, clientVars, siteUrl, site, fetched>>

\* one pass through the loop body, lines 30-66
CrawlIteration ==
    /\ crawlPc = "looping"
    /\ LoopGuard(queue, results)
    /\ IterationWith(Head(queue), Respond(site, Head(queue)))
    /\ UNCHANGED <<pipelineVars, helperVars, serviceVars, clientVars, siteUrl, site, crawlPc, base>>

\* a crawl that returns only once the queue is drained
CrawlReturnsOnEmptyQueue ==
    /\ crawlPc = "looping"
    /\ queue = <<>>
    /\ crawlPc' = "returned"
    /\ UNCHANGED <<pipelineVars, helperVars, serviceVars, clientVars, siteUrl, site, base, seen, queue,
                   results, fetched>>

\* the loop condition fails: lines 68-69
CrawlReturn ==
    /\ crawlPc = "looping"
    /\ ~LoopGuard(queue, results)
    /\ crawlPc' = "returned"
    /\ UNCHANGED <<pipelineVars, helperVars, serviceVars, clientVars, siteUrl, site, base, seen, queue,
                   results, fetched>>

NextCrawl ==
    \/ CrawlStart
    \/ CrawlIteration
    \/ CrawlReturn

SpecCrawl == InitCrawl /\ [][NextCrawl]_vars

\* Weak fairness of the three steps: the function body starts once called,
\* every fetch and every res.text() settles (the request carries
\* AbortSignal.timeout(15_000)), so a started iteration is always finished,
\* and the return follows the failed loop condition.  For CrawlStart and
\* CrawlIteration the fairness condition is written out with the guard of
\* the action in the place of ENABLED.
SpecCrawlFair ==
    /\ SpecCrawl
    /\ []<>(crawlPc # "idle")
    /\ \/ []<>(~(crawlPc = "looping" /\ LoopGuard(queue, results)))
       \/ []<><<CrawlIteration>>_vars
    /\ WF_vars(CrawlReturn)

(***************************************************************************)
(* CrawlService.contentForAnalysis, on the lengths of the strings.  The    *)
(* pages are pages as crawlSite stores them: the text is trimmed and not   *)
(* empty, the URL holds no blank.                                          *)
(***************************************************************************)
MAX_CONTENT_CHARS == 120000

\* `\n--- Page: ${p.url} ---\n${p.text}\n`.length
BlockLength(p) == 11 + Len(p.url) + 5 + p.text.length + 1

\* a loop without the break of line 80: the pages after the one that did
\* not fit are appended like the others
RECURSIVE AssembleWithoutBreak(_, _)
AssembleWithoutBreak(pages, outLength) ==
    IF pages = <<>>
    THEN [length |-> outLength, truncated |-> FALSE, emitted |-> <<>>]
    ELSE IF outLength + BlockLength(Head(pages)) > MAX_CONTENT_CHARS
    THEN [AssembleWithoutBreak(
              Tail(pages),
              outLength + Min(BlockLength(Head(pages)),
                              Max(0, MAX_CONTENT_CHARS - outLength - 50)) + 15)
          EXCEPT !.truncated = TRUE,
                 !.emitted = <<Min(BlockLength(Head(pages)),
                                   Max(0, MAX_CONTENT_CHARS - outLength - 50))>>
                             \o @]
    ELSE [AssembleWithoutBreak(Tail(pages), outLength + BlockLength(Head(pages)))
          EXCEPT !.emitted = <<BlockLength(Head(pages))>> \o @]

\* the for loop from the page at the head of pages on, outLength being
\* out.length; '\n...[truncated]' has 15 characters.  emitted lists, page by
\* page, how many characters of the page's block were appended to out
RECURSIVE AssembleFrom(_, _)
AssembleFrom(pages, outLength) ==
    IF pages = <<>>
    THEN [length |-> outLength, truncated |-> FALSE, emitted |-> <<>>]
    ELSE IF outLength + BlockLength(Head(pages)) > MAX_CONTENT_CHARS
    THEN [length |-> outLength
                     + Min(BlockLength(Head(pages)),
                           Max(0, MAX_CONTENT_CHARS - outLength - 50))
                     + 15,
          truncated |-> TRUE,
          emitted |-> <<Min(BlockLength(Head(pages)),
                            Max(0, MAX_CONTENT_CHARS - outLength - 50))>>]
    ELSE [AssembleFrom(Tail(pages), outLength + BlockLength(Head(pages)))
          EXCEPT !.emitted = <<BlockLength(Head(pages))>> \o @]

\* out.trim().length: out starts with the line feed of the first block and,
\* when it was not truncated, ends with the line feed of the last block
TrimmedLength(assembled) ==
    IF assembled.length = 0 THEN 0
    ELSE assembled.length - 1 - (IF assembled.truncated THEN 0 ELSE 1)

\* the length of the string contentForAnalysis returns
contentForAnalysis(pages) == TrimmedLength(AssembleFrom(pages, 0))

\* text lengths that fill the budget exactly, nearly and by half
PagePool ==
    {[url |-> Str_siteOrigin, text |-> TextOf(0, n)] :
        n \in {101, 59970, 119840, 119939, 119970}}

InitContent ==
    /\ NoClient
    /\ NoPipelineRun
    /\ NoCrawl
    /\ fn = "none"
    /\ arg \in ListsUpTo(PagePool, MaxAssembledPages)
    /\ out = <<>>

\* out[1] is the length of the returned string, out[2] the local out of the
\* loop at line 84, block by block
CallContentForAnalysis ==
    /\ fn = "none"
    /\ fn' = "contentForAnalysis"
    /\ out' = <<contentForAnalysis(arg), AssembleFrom(arg, 0)>>
    /\ UNCHANGED <<pipelineVars, crawlVars, serviceVars, clientVars, arg>>

NextContent == CallContentForAnalysis

SpecContent == InitContent /\ [][NextContent]_vars

(***************************************************************************)
(* AnalysisService.analyzeWebsite: it calls crawlSite(url) first (the      *)
(* three steps of crawlSite above), then tests the pages and the           *)
(* credential and asks the text-generation service for the profile.        *)
(***************************************************************************)
Err_noContent == <<"Could not extract any content from the website">>

\* analyzeWebsite(url) is called
InitAnalyze ==
    /\ NoClient
    /\ PipelineInit({EnvOf(TRUE, FALSE, <<>>), EnvOf(FALSE, FALSE, <<>>)},
                    {[kind |-> "object", prompts |-> <<>>],
                     [kind |-> "rejects", prompts |-> <<>>]})
    /\ NoHelperCall
    /\ servicePc = "analyzeWebsite"
    /\ suspended = <<>>
    /\ running = 0
    /\ siteUrl \in SeedPool
    /\ site \in Websites({2})
    /\ crawlPc = "idle"
    /\ base = <<>>
    /\ seen = {}
    /\ queue = <<>>
    /\ results = <<>>
    /\ fetched = <<>>

\* the pipeline variables analyzeWebsite and generateContentStrategy leave alone
untouchedByService ==
    <<env, url, llmReply, pc, generatedPrompts, searchRequests, callStatus,
      callResult, completionOrder, locals, classifyRequests, classifyReply>>

\* an analyzeWebsite that reads the credential before it looks at the pages
AnalyzeChecksKeyFirst ==
    /\ servicePc = "analyzeWebsite"
    /\ crawlPc = "returned"
    /\ IF ~env.apiKey
       THEN servicePc' = "failed" /\ error' = Err_noApiKey /\ llmRequests' = llmRequests
       ELSE IF Len(results) = 0
       THEN servicePc' = "failed" /\ error' = Err_noContent /\ llmRequests' = llmRequests
       ELSE servicePc' = "extracting" /\ error' = error /\ llmRequests' = llmRequests + 1
    /\ UNCHANGED <<untouchedByService, result, helperVars, crawlVars, clientVars, suspended, running>>

\* lines 45-56: crawlSite resolved; pages.length === 0 throws, a missing
\* OPENAI_API_KEY throws, otherwise generateText is called
AnalyzeAfterCrawl ==
    /\ servicePc = "analyzeWebsite"
    /\ crawlPc = "returned"
    /\ IF Len(results) = 0
       THEN servicePc' = "failed" /\ error' = Err_noContent /\ llmRequests' = llmRequests
       ELSE IF ~env.apiKey
       THEN servicePc' = "failed" /\ error' = Err_noApiKey /\ llmRequests' = llmRequests
       ELSE servicePc' = "extracting" /\ error' = error /\ llmRequests' = llmRequests + 1
    /\ UNCHANGED <<untouchedByService, result, helperVars, crawlVars, clientVars, suspended, running>>

\* lines 56-74: generateText settles
AnalyzeReturns ==
    /\ servicePc = "extracting"
    /\ IF llmReply.kind = "rejects"
       THEN servicePc' = "failed" /\ error' = Err_llm /\ result' = result
       ELSE servicePc' = "returned" /\ error' = error /\ result' = <<llmReply>>
    /\ UNCHANGED <<untouchedByService, llmRequests, helperVars, crawlVars, clientVars, suspended,
                   running>>

NextAnalyze ==
    \/ CrawlStart
    \/ CrawlIteration
    \/ CrawlReturn
    \/ AnalyzeAfterCrawl
    \/ AnalyzeReturns

SpecAnalyze == InitAnalyze /\ [][NextAnalyze]_vars

(***************************************************************************)
(* AnalysisService.generateContentStrategy: it starts one crawlSite per    *)
(* competitor URL and waits for all of them.  The invocations take turns   *)
(* at their awaits; the locals of the invocation that runs are base,       *)
(* seen, queue, results and fetched, the locals of the others wait in      *)
(* suspended.                                                              *)
(***************************************************************************)
\* a PromptResult as runGeoScorePipeline builds it, with the given citations
PromptResultFor(cited) ==
    [prompt |-> <<"q">>, apparitionLikelihood |-> 0, sources |-> groupSources(cited)]

StrategyInputs ==
    {<<>>,
     <<PromptResultFor(<<Str_siteOrigin>>)>>,
     <<PromptResultFor(<<Str_siteOrigin, <<"h", "t", "t", "p", "s", ":", "/", "/", "X", ".", "c", "o", "m", "/", "?", "a", "=", "1", "#", "f">>>>)>>,
     <<PromptResultFor(<<<<"h", "t", "t", "p", "s", ":", "/", "/", "x", ".", "c", "o", "m", "/", "p", "1">>, Str_siteOrigin>>)>>,
     <<PromptResultFor(<<<<"n", "o", "t", " ", "a", " ", "u", "r", "l">>, Str_siteOrigin>>)>>,
     <<PromptResultFor(<<Str_siteOrigin>>),
       PromptResultFor(<<<<"h", "t", "t", "p", "s", ":", "/", "/", "x", ".", "c", "o", "m", "/", "p", "1">>, Str_siteOrigin>>)>>}

\* Array.from(allUrls).slice(0, 5)
FirstFive(allUrls) == SubSeq(allUrls, 1, Min(5, Len(allUrls)))

\* lines 358-368: the first five distinct URLs of the sources
TopCompetitorUrls(promptResults) ==
    FirstFive(Unique(Flatten([j \in 1..Len(promptResults) |->
                 Flatten([i \in 1..Len(promptResults[j].sources) |->
                             promptResults[j].sources[i].urls])])))

\* the locals of a crawlSite(u) that reached its loop (lines 24-28)
Started(u, b) ==
    [siteUrl |-> u, crawlPc |-> "looping", base |-> b, seen |-> {b},
     queue |-> <<b>>, results |-> <<>>, fetched |-> <<>>]

\* the locals of the invocation that runs
Locals ==
    [siteUrl |-> siteUrl, crawlPc |-> crawlPc, base |-> base, seen |-> seen,
     queue |-> queue, results |-> results, fetched |-> fetched]

LocalsOf(i) == IF i = running THEN Locals ELSE suspended[i]

\* generateContentStrategy(targetUrl, analysis, promptResults) is called
InitStrategy ==
    /\ NoClient
    /\ PipelineInit({EnvOf(TRUE, FALSE, <<>>), EnvOf(FALSE, FALSE, <<>>)},
                    {[kind |-> "object", prompts |-> <<>>],
                     [kind |-> "rejects", prompts |-> <<>>]})
    /\ NoCrawl
    /\ fn = "none"
    /\ arg \in StrategyInputs
    /\ out = <<>>
    /\ servicePc = "generateContentStrategy"
    /\ suspended = <<>>
    /\ running = 0

\* the locals l are put in the place of those of the invocation that ran
LoadLocals(l) ==
    /\ siteUrl' = l.siteUrl
    /\ crawlPc' = l.crawlPc
    /\ base' = l.base
    /\ seen' = l.seen
    /\ queue' = l.queue
    /\ results' = l.results
    /\ fetched' = l.fetched

StartAll(started) ==
    /\ suspended' = started
    /\ IF started = <<>>
       THEN running' = 0 /\ UNCHANGED <<siteUrl, crawlPc, base, seen, queue, results, fetched>>
       ELSE running' = 1 /\ LoadLocals(started[1])

\* lines 355-375: topCompetitorUrls.map(u => crawlSite(u)...) runs every
\* crawlSite up to its first fetch; the site that answers is chosen here
StrategyStart ==
    /\ servicePc = "generateContentStrategy"
    /\ servicePc' = "scraping"
    /\ site' \in {w \in Websites({2}) : w.bad < 2}
    /\ StartAll([i \in 1..Len(TopCompetitorUrls(arg)) |->
                    Started(TopCompetitorUrls(arg)[i],
                            normalizeBase(TopCompetitorUrls(arg)[i]))])
    /\ UNCHANGED <<pipelineVars, helperVars, clientVars>>

\* a visited set that belongs to the service and not to the invocation
ResumeSharingSeen(i) ==
    /\ servicePc = "scraping"
    /\ i \in 1..Len(suspended)
    /\ i # running
    /\ suspended[i].crawlPc # "returned"
    /\ suspended' = [suspended EXCEPT ![running] = Locals]
    /\ running' = i
    /\ LoadLocals([suspended[i] EXCEPT !.seen = seen])
    /\ UNCHANGED <<pipelineVars, helperVars, clientVars, site, servicePc>>

\* the await of another invocation settles: that invocation goes on
Resume(i) ==
    /\ servicePc = "scraping"
    /\ i \in 1..Len(suspended)
    /\ i # running
    /\ suspended[i].crawlPc # "returned"
    /\ suspended' = [suspended EXCEPT ![running] = Locals]
    /\ running' = i
    /\ LoadLocals(suspended[i])
    /\ UNCHANGED <<pipelineVars, helperVars, clientVars, site, servicePc>>

\* lines 373-392: Promise.all resolved, every crawlSite returned; a missing
\* OPENAI_API_KEY throws, otherwise generateObject is called
StrategyAfterCrawls ==
    /\ servicePc = "scraping"
    /\ \A i \in 1..Len(suspended) : LocalsOf(i).crawlPc = "returned"
    /\ IF ~env.apiKey
       THEN servicePc' = "failed" /\ error' = Err_noApiKey /\ llmRequests' = llmRequests
       ELSE servicePc' = "designing" /\ error' = error /\ llmRequests' = llmRequests + 1
    /\ UNCHANGED <<untouchedByService, result, helperVars, crawlVars, clientVars, suspended, running>>

\* lines 392-429: generateObject settles
StrategyReturns ==
    /\ servicePc = "designing"
    /\ IF llmReply.kind = "rejects"
       THEN servicePc' = "failed" /\ error' = Err_llm /\ result' = result
       ELSE servicePc' = "returned" /\ error' = error /\ result' = <<llmReply>>
    /\ UNCHANGED <<untouchedByService, llmRequests, helperVars, crawlVars, clientVars, suspended,
                   running>>

SomeResume == \E i \in 1..Len(suspended) : Resume(i)

NextStrategy ==
    \/ StrategyStart
    \/ SomeResume
    \/ CrawlIteration
    \/ CrawlReturn
    \/ StrategyAfterCrawls
    \/ StrategyReturns

SpecStrategy == InitStrategy /\ [][NextStrategy]_vars

(***************************************************************************)
(* The web client: the component Home of apps/web/src/app/page.tsx.  An    *)
(* action is one event handler or one continuation of an async function,   *)
(* together with the render it causes and the effect React runs after      *)
(* that render when a dependency of the effect changed.                    *)
(***************************************************************************)
\* a set that grows with every unselected index
toggleQueryWithoutLimit(prev, index) ==
    IF index \in prev THEN prev \ {index} ELSE prev \cup {index}

\* the updater toggleQuery hands to setSelectedQueries
toggleQuery(prev, index) ==
    IF index \in prev THEN prev \ {index}
    ELSE IF Cardinality(prev) < 5 THEN prev \cup {index}
    ELSE prev

Msg_noUrl == <<"Please enter a website URL.">>

\* the inputs of the page: what the user types, what the two endpoints answer
TypedPool == {<<>>, Str_siteOrigin}

AnalyzeOutcomes == {"ok", "not_ok", "data_error", "rejects"}

GeoOutcomes == {"ok", "not_ok", "data_error", "rejects", "bad_json"}

InitClient ==
    /\ NoPipelineRun
    /\ NoHelperCall
    /\ NoCrawl
    /\ NoClient

\* the effect of lines 118-183 after a render that follows the state
\* stepN, analysisN, geoResultN, loadingN: when one of its dependencies
\* changed, the cleanup of the last run is called and the body runs
EffectAfterRender(changed, stepN, analysisN, geoResultN, loadingN) ==
    IF ~changed
    THEN /\ loading2' = loadingN
         /\ UNCHANGED <<fetchTriggeredRef, geoPending, isMounted, cleanup, geoRequests>>
    ELSE IF stepN = 2 /\ analysisN # <<>> /\ geoResultN = <<>> /\ ~fetchTriggeredRef
    THEN /\ fetchTriggeredRef' = TRUE
         /\ isMounted' = TRUE
         /\ cleanup' = TRUE
         /\ geoPending' = TRUE
         /\ geoRequests' = geoRequests + 1
         /\ loading2' = TRUE
    ELSE /\ isMounted' = IF cleanup THEN FALSE ELSE isMounted
         /\ cleanup' = FALSE
         /\ loading2' = loadingN
         /\ UNCHANGED <<fetchTriggeredRef, geoPending, geoRequests>>

\* onChange of the input, which is rendered in step 1 and disabled while
\* loading1
SetUrl(v) ==
    /\ step = 1
    /\ ~loading1
    /\ v \in TypedPool
    /\ v # typedUrl
    /\ typedUrl' = v
    /\ EffectAfterRender(TRUE, step, analysis, geoResult, loading2)
    /\ UNCHANGED <<step, loading1, error1, analysis, error2, geoResult,
                   selectedQueries, analyzePending, analyzeRequests, lastToggle>>
    /\ UNCHANGED <<pipelineVars, helperVars, crawlVars, serviceVars>>

\* handleAnalyze up to its await of fetch; the form is rendered in step 1 and
\* its button is disabled while loading1.  result and geoResult are null in
\* step 1, so setting them to null changes no dependency of the effect
HandleAnalyze ==
    /\ step = 1
    /\ ~loading1
    /\ analyzeRequests < MaxSubmits
    /\ fetchTriggeredRef' = FALSE
    /\ analysis' = <<>>
    /\ geoResult' = <<>>
    /\ error2' = <<>>
    /\ IF Trim(typedUrl) = <<>>
       THEN /\ error1' = Msg_noUrl
            /\ UNCHANGED <<loading1, analyzePending, analyzeRequests>>
       ELSE /\ error1' = <<>>
            /\ loading1' = TRUE
            /\ analyzePending' = TRUE
            /\ analyzeRequests' = analyzeRequests + 1
    /\ UNCHANGED <<step, typedUrl, loading2, selectedQueries, geoPending,
                   isMounted, cleanup, geoRequests, lastToggle>>
    /\ UNCHANGED <<pipelineVars, helperVars, crawlVars, serviceVars>>

\* handleAnalyze from the answer of /analyze on: lines 97-115
AnalyzeResponds(outcome) ==
    /\ analyzePending
    /\ outcome \in AnalyzeOutcomes
    /\ analyzePending' = FALSE
    /\ loading1' = FALSE
    /\ IF outcome = "ok"
       THEN /\ analysis' = <<"data">>
            /\ step' = 2
            /\ error1' = error1
            /\ EffectAfterRender(TRUE, 2, <<"data">>, geoResult, loading2)
       ELSE /\ error1' = <<outcome>>
            /\ UNCHANGED <<analysis, step>>
            /\ EffectAfterRender(FALSE, step, analysis, geoResult, loading2)
    /\ UNCHANGED <<typedUrl, error2, geoResult, selectedQueries,
                   analyzeRequests, lastToggle>>
    /\ UNCHANGED <<pipelineVars, helperVars, crawlVars, serviceVars>>

\* a Retry button that starts the request again
RetryRefetching ==
    /\ step = 2
    /\ analysis # <<>>
    /\ error2 # <<>>
    /\ ~geoPending
    /\ error2' = <<>>
    /\ loading2' = TRUE
    /\ geoPending' = TRUE
    /\ isMounted' = TRUE
    /\ geoRequests' = geoRequests + 1
    /\ UNCHANGED <<step, typedUrl, loading1, error1, analysis, geoResult,
                   selectedQueries, fetchTriggeredRef, analyzePending,
                   cleanup, analyzeRequests, lastToggle>>
    /\ UNCHANGED <<pipelineVars, helperVars, crawlVars, serviceVars>>

\* onClick of the Retry button (line 266), rendered in step 2 with error2
Retry ==
    /\ step = 2
    /\ analysis # <<>>
    /\ error2 # <<>>
    /\ error2' = <<>>
    /\ loading2' = FALSE
    /\ UNCHANGED <<step, typedUrl, loading1, error1, analysis, geoResult,
                   selectedQueries, fetchTriggeredRef, analyzePending,
                   geoPending, isMounted, cleanup, analyzeRequests,
                   geoRequests, lastToggle>>
    /\ UNCHANGED <<pipelineVars, helperVars, crawlVars, serviceVars>>

\* fetchGeo from the answer of /analyze/geo-score on, lines 134-174; n is
\* the number of internalPrompts of the GeoScoreResult
GeoResponds(outcome, n) ==
    /\ geoPending
    /\ outcome \in GeoOutcomes
    /\ n \in {0, MaxInternalPrompts}
    /\ geoPending' = FALSE
    /\ IF ~isMounted
       THEN UNCHANGED <<step, error2, geoResult, loading2, isMounted, cleanup>>
       ELSE IF outcome = "ok"
       THEN /\ geoResult' = <<n>>
            /\ step' = 3
            /\ error2' = error2
            /\ isMounted' = IF cleanup THEN FALSE ELSE isMounted
            /\ cleanup' = FALSE
            /\ loading2' = FALSE
       ELSE /\ error2' = <<outcome>>
            /\ loading2' = FALSE
            /\ UNCHANGED <<step, geoResult, isMounted, cleanup>>
    /\ UNCHANGED <<typedUrl, loading1, error1, analysis, selectedQueries,
                   fetchTriggeredRef, analyzePending, analyzeRequests,
                   geoRequests, lastToggle>>
    /\ UNCHANGED <<pipelineVars, helperVars, crawlVars, serviceVars>>

\* a call toggleQuery(index) for an item of the list of step 3 (the onClick
\* of an item makes the call only when the item is selected or fewer than 5
\* are)
ToggleQuery(index) ==
    /\ step = 3
    /\ geoResult # <<>>
    /\ index \in 0..(geoResult[1] - 1)
    /\ selectedQueries' = toggleQuery(selectedQueries, index)
    /\ lastToggle' = index
    /\ UNCHANGED <<step, typedUrl, loading1, error1, analysis, loading2, error2,
                   geoResult, fetchTriggeredRef, analyzePending, geoPending,
                   isMounted, cleanup, analyzeRequests, geoRequests>>
    /\ UNCHANGED <<pipelineVars, helperVars, crawlVars, serviceVars>>

NextClient ==
    \/ \E v \in TypedPool : SetUrl(v)
    \/ HandleAnalyze
    \/ \E outcome \in AnalyzeOutcomes : AnalyzeResponds(outcome)
    \/ \E outcome \in GeoOutcomes, n \in {0, MaxInternalPrompts} :
           GeoResponds(outcome, n)
    \/ Retry
    \/ \E index \in 0..(MaxInternalPrompts - 1) : ToggleQuery(index)

SpecClient == InitClient /\ [][NextClient]_vars

(***************************************************************************)
(* Properties of runGeoScorePipeline                                       *)
(***************************************************************************)
Returned == pc = "done" /\ result # <<>>

\* the index of the search call that reported the internal prompt q
CallOf(q) == CHOOSE i \in 1..Len(generatedPrompts) : generatedPrompts[i] = Prompt(q[2])

\* search call i cited a URL that matches the normalized target
Cites(i, normalizedSite) ==
    \E k \in 1..Len(callResult[i].sources) :
        urlMatches(callResult[i].sources[k], normalizedSite)

CitingCallsFor(normalizedSite) ==
    {i \in 1..Len(callResult) : Cites(i, normalizedSite)}

\* s is num / den rounded to the nearest integer, halves up
IsRounded(s, num, den) ==
    2 * den * s <= 2 * num + den /\ 2 * num + den < 2 * den * (s + 1)

Hits(promptResults) ==
    {j \in 1..Len(promptResults) : promptResults[j].apparitionLikelihood = 100}

\* the positions of promptResults whose prompt was reported by search call i
EntriesOfCall(promptResults, i) ==
    {j \in 1..Len(promptResults) : CallOf(promptResults[j].prompt) = i}

WithoutCategory(grouped) ==
    [i \in 1..Len(grouped) |->
        [domain |-> grouped[i].domain, count |-> grouped[i].count,
         urls |-> grouped[i].urls]]

\* C1: the score of a returned result is round(100 * k / n) for n generated
\* prompts of which k had a search call citing the target, whatever the
\* number of internal queries the calls reported.
C1_ScoreIsShareOfGeneratedPrompts ==
    Returned =>
        IsRounded(result[1].score,
                  100 * Cardinality(CitingCallsFor(normalizeUrlForMatch(url))),
                  Len(generatedPrompts))

\* C2: the score of a returned result is an integer in 0..100, equal to
\* round(100 * hits / len) over its promptResults, and 0 when there are none.
C2_ScoreIsRoundedShareOfPromptResults ==
    Returned =>
        /\ result[1].score \in 0..100
        /\ IF result[1].promptResults = <<>>
           THEN result[1].score = 0
           ELSE IsRounded(result[1].score,
                          100 * Cardinality(Hits(result[1].promptResults)),
                          Len(result[1].promptResults))

C2_Witness ==
    /\ Returned
    /\ Len(result[1].promptResults) >= 3
    /\ result[1].score \in 1..99

EntriesBuiltFromCall(promptResults, i, grouped) ==
    /\ \A k \in 1..Len(callResult[i].internalPrompts) :
           Cardinality({j \in EntriesOfCall(promptResults, i) :
                           promptResults[j].prompt = callResult[i].internalPrompts[k]}) = 1
    /\ \A j \in EntriesOfCall(promptResults, i) :
           /\ promptResults[j].prompt \in Range(callResult[i].internalPrompts)
           /\ WithoutCategory(promptResults[j].sources) = grouped

LikelihoodOfCall(promptResults, i, cited) ==
    \A j \in EntriesOfCall(promptResults, i) :
        /\ promptResults[j].apparitionLikelihood \in {0, 100}
        /\ promptResults[j].apparitionLikelihood = 100 <=> cited

LikelihoodsFor(promptResults, normalizedSite) ==
    \A i \in 1..Len(callResult) :
        LikelihoodOfCall(promptResults, i, Cites(i, normalizedSite))

\* C4: every PromptResult's likelihood is 0 or 100, and it is 100 exactly
\* when a URL cited by the search call of its prompt matches the target.
C4_LikelihoodIsBinaryAndMeansCited ==
    Returned => LikelihoodsFor(result[1].promptResults, normalizeUrlForMatch(url))

C4_Witness ==
    /\ Returned
    /\ \E j, k \in 1..Len(result[1].promptResults) :
           /\ result[1].promptResults[j].apparitionLikelihood = 100
           /\ result[1].promptResults[k].apparitionLikelihood = 0
           /\ result[1].promptResults[k].sources # <<>>

\* C5: once a search call has failed the run has failed: there is no
\* result, and no classification request was or will be issued.
C5_SearchFailureFailsTheRun ==
    (\E i \in 1..Len(callStatus) : callStatus[i] = "failed") =>
        /\ pc = "failed"
        /\ result = <<>>
        /\ classifyRequests = <<>>

C5_Witness ==
    /\ \E i \in 1..Len(callStatus) : callStatus[i] = "failed"
    /\ \E i \in 1..Len(callStatus) :
           callStatus[i] = "ok" /\ callResult[i].sources # <<>>
    /\ \A i \in 1..Len(callStatus) : callStatus[i] # "pending"

\* C6: whatever the order in which the search calls settled, the internal
\* prompts and the promptResults stand in generated-prompt order: those of
\* the i-th prompt's call come before those of the (i+1)-th.
C6_JoinKeepsPromptOrder ==
    pc \in {"classifying", "done"} =>
        /\ locals.allInternalPrompts
               = Flatten([i \in 1..Len(callResult) |-> callResult[i].internalPrompts])
        /\ \A a \in 1..(Len(locals.allInternalPrompts) - 1) :
               CallOf(locals.allInternalPrompts[a])
                   <= CallOf(locals.allInternalPrompts[a + 1])
        /\ \A a \in 1..(Len(locals.promptResults) - 1) :
               CallOf(locals.promptResults[a].prompt)
                   <= CallOf(locals.promptResults[a + 1].prompt)
        /\ Returned => result[1].internalPrompts = locals.allInternalPrompts

C6_Witness ==
    /\ Returned
    /\ Len(completionOrder) >= 2
    /\ completionOrder[1] > completionOrder[2]
    /\ \A i \in 1..Len(callResult) : callResult[i].internalPrompts # <<>>

\* C7: getNumSearchPrompts is in 1..10 for every NUM_SEARCH_PROMPTS
\* setting, generateSearchPrompts returns at most that many prompts, and a
\* run issues exactly one search call per generated prompt, never more
\* than 10.
C7_AtMostTenSearchCalls ==
    /\ getNumSearchPrompts(env) \in 1..10
    /\ Len(generatedPrompts) <= getNumSearchPrompts(env)
    /\ Len(searchRequests) <= 10
    /\ pc = "searching" => searchRequests = generatedPrompts

C7_Witness ==
    /\ pc = "searching"
    /\ Len(llmReply.prompts) > 10
    /\ Len(searchRequests) = 10

\* C8: when the run waits for the search calls, and whenever one of them
\* has settled, every search call of the run has been started.
C8_AllSearchCallsStartedBeforeTheWait ==
    (pc = "searching" \/ completionOrder # <<>>) =>
        /\ \A i \in 1..Len(callStatus) : callStatus[i] # "not_started"
        /\ Len(callStatus) = Len(generatedPrompts)
        /\ Len(searchRequests) = Len(generatedPrompts)

C8_Witness ==
    /\ pc = "searching"
    /\ Len(callStatus) >= 2
    /\ \A i \in 1..Len(callStatus) : callStatus[i] = "pending"

\* prompt generation has answered and yielded no prompt
NoPromptsGenerated ==
    /\ pc \notin {"idle", "generating"}
    /\ llmRequests = 1
    /\ llmReply.kind # "rejects"
    /\ generatedPrompts = <<>>

\* C9: when prompt generation yields zero prompts the run fails with the
\* 'no prompts' error, and no search call and no classification call is
\* issued.
C9_NoPromptsIsFatalBeforeAnySearch ==
    NoPromptsGenerated =>
        /\ pc = "failed"
        /\ error = Err_noPrompts
        /\ searchRequests = <<>>
        /\ classifyRequests = <<>>
        /\ result = <<>>

C9_Witness ==
    /\ NoPromptsGenerated
    /\ llmReply.kind = "object"
    /\ error = Err_noPrompts

ClassificationFailed ==
    classifyReply # <<>> /\ classifyReply[1].kind \in ClassifyFailureKinds

AllCategoriesOther(payload) ==
    /\ \A i \in 1..Len(payload.sources) : payload.sources[i].category = "other"
    /\ \A j \in 1..Len(payload.promptResults) :
           \A i \in 1..Len(payload.promptResults[j].sources) :
               payload.promptResults[j].sources[i].category = "other"

WithoutCategories(payload) ==
    [score |-> payload.score,
     generatedPrompts |-> payload.generatedPrompts,
     internalPrompts |-> payload.internalPrompts,
     sources |-> WithoutCategory(payload.sources),
     promptResults |->
         [j \in 1..Len(payload.promptResults) |->
             [prompt |-> payload.promptResults[j].prompt,
              apparitionLikelihood |-> payload.promptResults[j].apparitionLikelihood,
              sources |-> WithoutCategory(payload.promptResults[j].sources)]]]

\* the replies with which the classification of the requested domains succeeds
SuccessfulReplies ==
    {r \in ClassifyReplies(classifyRequests[Len(classifyRequests)]) : r.kind = "ok"}

\* the payload the run returns when the classification answers with reply
PayloadWith(reply) ==
    Payload(locals, classifyDomains(reply).map, env, generatedPrompts)

SameButCategories(payload, other) ==
    WithoutCategories(payload) = WithoutCategories(other)

AllEntries(payload) ==
    payload.sources
    \o Flatten([j \in 1..Len(payload.promptResults) |->
                   payload.promptResults[j].sources])

\* the classification gave no value of the closed set for domain: there was
\* no reply, the call failed, or no entry of the reply that names the domain
\* (up to letter case, surrounding blanks and a leading www.) has such a value
NotClassified(domain) ==
    \/ classifyReply = <<>>
    \/ classifyReply[1].kind # "ok"
    \/ \A k \in 1..Len(classifyReply[1].entries) :
           \/ StripWww(Trim(ToLowerCase(classifyReply[1].entries[k].key))) # domain
           \/ classifyReply[1].entries[k].val \notin
                  {"social_media", "shopping", "forums_qa", "review_editorial",
                   "news_press", "other"}

CategoriesClosed(entries) ==
    \A i \in 1..Len(entries) :
        /\ entries[i].category \in
               {"social_media", "shopping", "forums_qa", "review_editorial",
                "news_press", "other"}
        /\ NotClassified(entries[i].domain) => entries[i].category = "other"

CitedDomainKeys ==
    [i \in 1..Len(Flatten([c \in 1..Len(callResult) |-> callResult[c].sources])) |->
        domainKey(Flatten([c \in 1..Len(callResult) |-> callResult[c].sources])[i])]

References(keys, domain) == Cardinality({i \in 1..Len(keys) : keys[i] = domain})

\* request lists every cited domain once, a most-referenced one first
ListsEveryDomain(request, keys) ==
    /\ Range(request) = Range(keys)
    /\ Cardinality(Range(request)) = Len(request)
    /\ \A d \in Range(keys) : References(keys, request[1]) >= References(keys, d)

OneRequestFor(keys) ==
    IF keys = <<>>
    THEN classifyRequests = <<>>
    ELSE Len(classifyRequests) = 1 /\ ListsEveryDomain(classifyRequests[1], keys)

\* C12: a run issues the classification request at most once: exactly once,
\* listing every distinct cited domain with the most-referenced first, when
\* a URL was cited, and never when no search call cited a URL.
C12_OneBatchedClassificationRequest ==
    /\ Len(classifyRequests) <= 1
    /\ pc \in {"classifying", "done"} => OneRequestFor(CitedDomainKeys)
    /\ pc \notin {"classifying", "done"} => classifyRequests = <<>>

\* the most-referenced domain is not the first one cited
C12_Witness ==
    /\ pc = "done"
    /\ Len(classifyRequests) = 1
    /\ Len(classifyRequests[1]) >= 2
    /\ callResult[1].sources # <<>>
    /\ domainKey(callResult[1].sources[1]) # classifyRequests[1][1]
    /\ callResult[1].internalPrompts # <<>>

(***************************************************************************)
(* Properties of groupSources                                              *)
(***************************************************************************)
Grouped == fn = "groupSources"

\* the rearrangements of a list
Rearrangements(l) ==
    {[i \in 1..Len(l) |-> l[f[i]]] : f \in Permutations(1..Len(l))}

SortedByCountThenDomain(entries) ==
    \A i \in 1..(Len(entries) - 1) :
        \/ entries[i].count > entries[i + 1].count
        \/ /\ entries[i].count = entries[i + 1].count
           /\ StrLess(entries[i].domain, entries[i + 1].domain)

\* C13: the list groupSources returns is sorted by count descending with
\* entries of equal count in ascending order of domain name, so that every
\* rearrangement of the input list gives the same output.
C13_SortedByCountThenDomainName ==
    Grouped =>
        /\ SortedByCountThenDomain(out)
        /\ \A l \in Rearrangements(arg) : groupSources(l) = out

UrlsOf(entries) == UNION {Range(entries[i].urls) : i \in 1..Len(entries)}

\* C14: the urls fields of the entries groupSources returns together hold
\* exactly the distinct input URL strings, and no URL stands under two
\* entries.
C14_UrlsRecoverTheDistinctInput ==
    Grouped =>
        /\ UrlsOf(out) = Range(arg)
        /\ \A i, j \in 1..Len(out) :
               i # j => Range(out[i].urls) \cap Range(out[j].urls) = {}

\* two distinct URLs of one domain and a repeated URL
C14_Witness ==
    /\ Grouped
    /\ Len(arg) = 3
    /\ Cardinality(Range(arg)) = 2
    /\ Len(out) = 1
    /\ Len(out[1].urls) = 2

\* the positions of the input list whose URL has the domain key domain
PositionsOf(keys, domain) == {i \in 1..Len(keys) : keys[i] = domain}

RECURSIVE SumOfCounts(_)
SumOfCounts(entries) ==
    IF entries = <<>> THEN 0 ELSE Head(entries).count + SumOfCounts(Tail(entries))

EntryCountsItsDomain(e, urls, keys) ==
    /\ e.count = Cardinality(PositionsOf(keys, e.domain))
    /\ Range(e.urls) = {urls[i] : i \in PositionsOf(keys, e.domain)}
    /\ Len(e.urls) = Cardinality(Range(e.urls))
    /\ \A k \in 1..(Len(e.urls) - 1) : StrLess(e.urls[k], e.urls[k + 1])

EntriesCountTheirDomains(entries, urls, keys) ==
    /\ \A i \in 1..Len(entries) : EntryCountsItsDomain(entries[i], urls, keys)
    /\ {entries[i].domain : i \in 1..Len(entries)} = Range(keys)
    /\ Len(entries) = Cardinality(Range(keys))
    /\ SumOfCounts(entries) = Len(urls)

\* C15: every entry's count is the number of input occurrences of URLs of its
\* domain, its urls are those URLs, each once, in lexicographic order, there
\* is one entry per distinct domain, and the counts sum to the input length.
C15_CountsAndUrlsPerDomain ==
    Grouped =>
        EntriesCountTheirDomains(out, arg, [i \in 1..Len(arg) |-> domainKey(arg[i])])

\* a URL cited twice and another URL of the same domain
C15_Witness ==
    /\ Grouped
    /\ Len(arg) = 3
    /\ \E i \in 1..Len(out) : out[i].count = 3 /\ Len(out[i].urls) = 2
    /\ arg[1] = arg[3]

(***************************************************************************)
(* Properties of domainKey, normalizeUrlForMatch and urlMatches            *)
(***************************************************************************)
\* the string new URL is given in domainKey
AsParsedByDomainKey(urlStr) ==
    IF StartsWith(urlStr, <<"h", "t", "t", "p">>) THEN urlStr
    ELSE <<"h", "t", "t", "p", ":", "/", "/">> \o urlStr

ReturnsRawWhenUnparsable(urlStr, key) ==
    ~ParseUrl(AsParsedByDomainKey(urlStr)).ok => key = urlStr

\* C16: domainKey never throws, and for an input that cannot be parsed as a
\* URL it returns the raw input string itself.
C16_DomainKeyFallsBackToTheRawString ==
    fn = "domainKey" => Len(out) = 1 /\ ReturnsRawWhenUnparsable(arg[1], out[1])

WithoutOneWww(host) ==
    IF Len(host) >= 4 /\ SubSeq(host, 1, 4) = <<"w", "w", "w", ".">>
    THEN SubSeq(host, 5, Len(host)) ELSE host

\* u is a URL of a scheme whose URLs always name a host (http, https, ftp,
\* ws, wss)
IsLoweredHostWithoutWww(u, key) ==
    (u.ok /\ u.special) => key = WithoutOneWww(ToLowerCase(u.host))

\* C17: for every parsable URL (here: every one that names a host) domainKey
\* returns the lower-cased hostname with exactly one leading 'www.' removed.
C17_DomainKeyIsLoweredHostWithoutWww ==
    fn = "domainKey" => IsLoweredHostWithoutWww(ParseUrl(arg[1]), out[1])

\* C18: normalizeUrlForMatch is idempotent for every input string, also for
\* paths that end in more than one slash.
C18_NormalizeIsIdempotent ==
    fn = "normalizeUrlForMatch" => normalizeUrlForMatch(out[1]) = out[1]

\* s is n, or s begins with n and goes on with a '/'
AtPathBoundary(s, n) ==
    /\ Len(s) >= Len(n)
    /\ SubSeq(s, 1, Len(n)) = n
    /\ Len(s) = Len(n) \/ s[Len(n) + 1] = "/"

SameOriginWhenParsable(source, target) ==
    (source.ok /\ source.special /\ target.ok /\ target.special) =>
        /\ source.scheme = target.scheme
        /\ source.host = target.host
        /\ source.port = target.port

\* a match with the normalized form of a target means the same scheme, host
\* and port as the target
MatchMeansSameOrigin(sourceUrl, normalizedSite) ==
    \A t \in SitePool :
        normalizeUrlForMatch(t) = normalizedSite =>
            SameOriginWhenParsable(ParseUrl(sourceUrl), ParseUrl(t))

\* C19: urlMatches(sourceUrl, normalizedSite) is true exactly when the
\* normalized source equals normalizedSite or continues it with a '/', so a
\* source on a host that only begins with the target's host never matches.
C19_UrlMatchesAtPathBoundary ==
    fn = "urlMatches" =>
        /\ out[1] <=> AtPathBoundary(normalizeUrlForMatch(arg[1]), arg[2])
        /\ out[1] => MatchMeansSameOrigin(arg[1], arg[2])

\* https://example.company.com/x against the target https://example.com
C19_Witness ==
    /\ fn = "urlMatches"
    /\ arg[2] = Str_exampleSite
    /\ ParseUrl(arg[1]).ok
    /\ ParseUrl(arg[1]).scheme = <<"h", "t", "t", "p", "s">>
    /\ ParseUrl(arg[1]).host
           = <<"e","x","a","m","p","l","e",".","c","o","m","p","a","n","y",".","c","o","m">>
    /\ ParseUrl(arg[1]).pathname = <<"/", "x">>
    /\ out[1] = FALSE

\* no search call is started before generateSearchPrompts returned prompts
SearchAfterGeneration ==
    searchRequests # <<>>
        => (pc \notin {"idle", "generating"} /\ generatedPrompts # <<>>)

\* aggregation and classification come after every search call succeeded
AggregationAfterFanOut ==
    (locals # EmptyLocals \/ classifyRequests # <<>>)
        => (\A i \in 1..Len(callStatus) : callStatus[i] = "ok")

\* the payload is assembled from the locals, after the reply to the
\* classification request when one was issued (none is issued for an empty
\* list of domains)
AssemblyLast ==
    result # <<>>
        => /\ classifyRequests # <<>> => classifyReply # <<>>
           /\ result[1].score = locals.score

\* C28 as stated: the stages run in the order prompt generation, search
\* fan-out, source aggregation, domain classification, score calculation,
\* result assembly; a calculated score means the classification has replied.
C28_StagesInStatedOrder ==
    /\ SearchAfterGeneration
    /\ AggregationAfterFanOut
    /\ AssemblyLast
    /\ locals.score > 0 => classifyReply # <<>>

\* C28, amended: the stages run in the order prompt generation, search
\* fan-out, source aggregation, score calculation, domain classification,
\* result assembly; when the classification is requested the sources and
\* the prompt results are aggregated and the score is already calculated
\* from them.
C28_StagesInCodeOrder ==
    /\ SearchAfterGeneration
    /\ AggregationAfterFanOut
    /\ AssemblyLast
    /\ classifyRequests # <<>>
           => /\ locals # EmptyLocals
              /\ IF locals.promptResults = <<>>
                 THEN locals.score = 0
                 ELSE IsRounded(locals.score,
                                100 * Cardinality(Hits(locals.promptResults)),
                                Len(locals.promptResults))

\* a run went through every stage: two search calls, a score above 0, a
\* classification reply and the payload
C28_Witness ==
    /\ pc = "done"
    /\ Len(searchRequests) = 2
    /\ locals.score > 0
    /\ classifyReply # <<>>
    /\ result # <<>>

(***************************************************************************)
(* Properties of crawlSite                                                 *)
(***************************************************************************)
\* C20: in every state of crawlSite at most MAX_PAGES (10) pages are
\* collected, and the returned list has at most MAX_PAGES entries, also when
\* more same-origin links remain in the queue.
C20_AtMostMaxPages == Len(results) <= MAX_PAGES

\* the crawl returned ten pages while links were still queued
C20_Witness ==
    /\ crawlPc = "returned"
    /\ Len(results) = MAX_PAGES
    /\ queue # <<>>
    /\ \A u \in Range(queue) : sameOrigin(base, u)

\* C21: every page in the results of crawlSite has a URL of the origin
\* (scheme, host, port) of the seed URL and a text of more than 100
\* characters.
C21_PagesAreSameOriginAndLongEnough ==
    \A i \in 1..Len(results) :
        /\ SameOriginOf(ParseUrl(siteUrl), ParseUrl(results[i].url))
        /\ results[i].text.length > 100

\* a crawl returned pages after it met a link to another origin and fetched
\* a page of exactly 100 characters
C21_Witness ==
    /\ crawlPc = "returned"
    /\ results # <<>>
    /\ site.kind = "short"
    /\ \E i \in 1..Len(fetched) :
           /\ PageIndex(ParseUrl(fetched[i]).pathname) = site.bad
           /\ \A j \in 1..Len(results) : results[j].url # fetched[i]
    /\ \E i \in 1..Len(RootLinks) :
           /\ toAbsolute(base, RootLinks[i]).ok
           /\ ~sameOrigin(base, toAbsolute(base, RootLinks[i]).url)

\* C22: crawlSite terminates on a site with a finite link graph, whatever
\* the outcome of each fetch is: eventually it has returned, with an empty
\* queue or with MAX_PAGES collected pages.
C22_CrawlTerminates ==
    <>(crawlPc = "returned" /\ (queue = <<>> \/ Len(results) = MAX_PAGES))

\* a crawl returned with an empty queue and fewer than MAX_PAGES pages after
\* a fetch was rejected
C22_Witness ==
    /\ crawlPc = "returned"
    /\ queue = <<>>
    /\ Len(results) < MAX_PAGES
    /\ site.kind = "fetch_rejects"
    /\ \E i \in 1..Len(fetched) :
           PageIndex(ParseUrl(fetched[i]).pathname) = site.bad

\* C23: one crawlSite invocation performs at most MAX_PAGES fetches, also
\* when fetched pages fail, are not HTML or have too little text.
C23_AtMostMaxPagesFetches == Len(fetched) <= MAX_PAGES

\* every URL that was ever placed in the queue, in the order of placing:
\* each iteration moves the head of the queue to the fetched URLs
Enqueued == fetched \o queue

NoRepeat(list) ==
    \A i, j \in 1..Len(list) : list[i] = list[j] => i = j

\* C29: the visited set holds every URL ever placed in the queue, no URL
\* string is placed in it twice, each URL string is fetched at most once
\* and no two pages of the results have the same URL string.
C29_VisitedCoversQueueAndNoRepeats ==
    /\ Range(Enqueued) \subseteq seen
    /\ NoRepeat(Enqueued)
    /\ NoRepeat(fetched)
    /\ NoRepeat([i \in 1..Len(results) |-> results[i].url])

\* a returned crawl met links to URLs it had already seen and holds two
\* pages, under different URL strings, for the same page of the site
C29_Witness ==
    /\ crawlPc = "returned"
    /\ \E i, j \in 1..Len(results) :
           /\ i # j
           /\ results[i].text.page = results[j].text.page
    /\ \E i \in 1..Len(fetched) : toAbsolute(base, PagePath(1)).url = fetched[i]

\* C30: every URL in the visited set and in the queue is in normalized
\* form (no trailing slash, no query, no fragment), so links that differ
\* only in those are fetched once.
C30_VisitedUrlsAreNormalized ==
    \A u \in seen \cup Range(queue) : normalizeBase(u) = u

(***************************************************************************)
(* Properties of analyzeWebsite                                            *)
(***************************************************************************)
\* C24: when the crawl of the target yields zero pages, analyzeWebsite fails
\* with the extraction failure and has issued no request to the
\* text-generation service, with and without a credential.
C24_NoPagesFailsBeforeAnyExternalCall ==
    (servicePc # "analyzeWebsite" /\ Len(results) = 0)
        => (servicePc = "failed" /\ error = Err_noContent /\ llmRequests = 0)

\* the seed was unreachable on its first fetch, no credential is configured,
\* and analyzeWebsite failed with the extraction failure
C24_Witness ==
    /\ servicePc = "failed"
    /\ error = Err_noContent
    /\ ~env.apiKey
    /\ Len(fetched) = 1
    /\ site.bad = 0
    /\ site.kind = "fetch_rejects"

\* C25: without a credential the method fails with the configuration error
\* before it issues any network request: no fetch of the crawler and no
\* request to an external service.
C25_MissingCredentialFailsBeforeAnyRequest ==
    ~env.apiKey =>
        /\ fetched = <<>>
        /\ llmRequests = 0
        /\ servicePc = "failed" => error = Err_noApiKey

(***************************************************************************)
(* Properties of contentForAnalysis                                        *)
(***************************************************************************)
\* C26: the string contentForAnalysis returns is never longer than
\* MAX_CONTENT_CHARS, the truncation marker included, also when the blocks
\* before the truncated one end within 50 characters of the budget.
C26_ContentWithinBudget ==
    fn = "contentForAnalysis" => out[1] <= MAX_CONTENT_CHARS

(***************************************************************************)
(* Properties of generateContentStrategy                                   *)
(***************************************************************************)
\* crawlSite run alone, as a function of the site and the seed: the loop of
\* lines 30-66 from the locals acc = [seen, queue] and collected on
RECURSIVE AloneFrom(_, _, _, _)
AloneAfter(w, b, u, response, acc, collected) ==
    IF response.kind = "ok"
    THEN AloneFrom(w, b, DiscoverLinks(response.hrefs, b, acc),
                   IF response.text.length > 100
                   THEN Append(collected, [url |-> u, text |-> response.text])
                   ELSE collected)
    ELSE AloneFrom(w, b, acc, collected)

AloneFrom(w, b, acc, collected) ==
    IF ~LoopGuard(acc.queue, collected) THEN collected
    ELSE AloneAfter(w, b, Head(acc.queue), Respond(w, Head(acc.queue)),
                    [seen |-> acc.seen, queue |-> Tail(acc.queue)], collected)

AloneWithBase(w, b) == AloneFrom(w, b, [seen |-> {b}, queue |-> <<b>>], <<>>)

CrawlAlone(w, seed) == AloneWithBase(w, normalizeBase(seed))

\* C27: the pages every crawlSite invocation of generateContentStrategy
\* returns are the pages crawlSite returns for the same seed and the same
\* site when it runs alone, however the invocations take turns.
C27_ConcurrentCrawlsAreIndependent ==
    \A i \in 1..Len(suspended) :
        LocalsOf(i).crawlPc = "returned"
            => LocalsOf(i).results = CrawlAlone(site, LocalsOf(i).siteUrl)

\* two invocations that visited a common URL both returned pages, and the
\* first of them went on after the second had started
C27_Witness ==
    /\ servicePc # "scraping"
    /\ Len(suspended) = 2
    /\ running = 1
    /\ \A i \in 1..2 : LocalsOf(i).crawlPc = "returned" /\ LocalsOf(i).results # <<>>
    /\ LocalsOf(1).seen \cap LocalsOf(2).seen # {}
    /\ LocalsOf(1).siteUrl # LocalsOf(2).siteUrl

IsPrefixOf(s, t) == Len(s) <= Len(t) /\ SubSeq(t, 1, Len(s)) = s

\* the pages of the list appear in the order in which their URLs were fetched
InFetchOrder(pages) ==
    /\ \A i \in 1..Len(pages) : pages[i].url \in Range(fetched)
    /\ \A i, j \in 1..Len(pages) :
           i < j => \E k, l \in 1..Len(fetched) :
                        /\ k < l
                        /\ fetched[k] = pages[i].url
                        /\ fetched[l] = pages[j].url

\* C31: crawlSite fetches in first-in-first-out order of discovery: the
\* first fetch is the normalized seed, every fetch takes the URL that has
\* waited longest in the queue, the links discovered on the fetched page go
\* behind the URLs that were already waiting, and the collected pages are in
\* the order of their fetches.
C31_FetchesInFifoOrder ==
    /\ [](fetched # <<>> => fetched[1] = normalizeBase(siteUrl))
    /\ [](InFetchOrder(results))
    /\ [][fetched' # fetched
             => /\ fetched' = Append(fetched, Head(queue))
                /\ IsPrefixOf(Tail(queue), queue')]_vars

\* a returned crawl fetched the second page of the site, discovered on the
\* root page, before the fourth, discovered on the second, and collected
\* both
C31_Witness ==
    /\ crawlPc = "returned"
    /\ \E i, j \in 1..Len(results) :
           /\ i < j
           /\ results[i].text.page = 1
           /\ results[j].text.page = 3
    /\ Len(fetched) > Len(results)

\* C32: when the fetch of a queued URL is rejected (network failure or
\* timeout), answers with a non-success status or a content type that is
\* not HTML, or its body cannot be read, the iteration adds no page and no
\* link: the pages and the visited set stay as they were, the queue only
\* loses the failed URL, the crawl goes on with the loop, and no URL string
\* is fetched a second time.
C32_FailedFetchIsSkipped ==
    /\ [](NoRepeat(fetched) /\ crawlPc \in {"idle", "looping", "returned"})
    /\ [][(fetched' # fetched /\ Respond(site, Head(queue)).kind # "ok")
             => /\ results' = results
                /\ seen' = seen
                /\ queue' = Tail(queue)
                /\ crawlPc' = "looping"]_vars

\* a page answered with a content type that is not HTML; the crawl went on,
\* fetched further URLs and returned pages, none of them for the failed URL
C32_Witness ==
    /\ crawlPc = "returned"
    /\ site.kind = "not_html"
    /\ \E i \in 1..(Len(fetched) - 1) :
           /\ PageIndex(ParseUrl(fetched[i]).pathname) = site.bad
           /\ \A j \in 1..Len(results) : results[j].url # fetched[i]
           /\ \E j \in 1..Len(results) : results[j].url = fetched[i + 1]

\* the length of out after the blocks of the first k pages
RECURSIVE BlocksUpTo(_, _)
BlocksUpTo(pages, k) ==
    IF k = 0 THEN 0 ELSE BlocksUpTo(pages, k - 1) + BlockLength(pages[k])

\* the pages whose block, appended whole after the blocks before it, exceeds
\* the budget
Overflowing(pages) ==
    {k \in 1..Len(pages) : BlocksUpTo(pages, k) > MAX_CONTENT_CHARS}

\* C33: contentForAnalysis appends the blocks in the order of the pages;
\* the blocks before the first one that would exceed the budget are whole,
\* of that block only a proper prefix (possibly empty) is appended, followed
\* by the truncation marker, nothing of a later page is appended, and the
\* marker is appended exactly when some page's block is not whole in the
\* output.
C33_TruncatesAtFirstOverflowAndStops ==
    fn = "contentForAnalysis" =>
        LET emitted == out[2].emitted
            over == Overflowing(arg)
        IN /\ Len(emitted) <= Len(arg)
           /\ \A k \in 1..Len(emitted) :
                  IF \E o \in over : o <= k
                  THEN /\ k \in over
                       /\ \A o \in over : k <= o
                       /\ emitted[k] < BlockLength(arg[k])
                       /\ Len(emitted) = k
                  ELSE emitted[k] = BlockLength(arg[k])
           /\ out[2].truncated
                  <=> \E k \in 1..Len(arg) :
                          k > Len(emitted) \/ emitted[k] < BlockLength(arg[k])
           /\ out[2].truncated <=> over # {}

\* three pages: the first is whole, of the second a non-empty prefix is
\* kept, and the third, which had fitted in place of the second, is absent
C33_Witness ==
    /\ fn = "contentForAnalysis"
    /\ Len(arg) = 3
    /\ Len(out[2].emitted) = 2
    /\ out[2].emitted[1] = BlockLength(arg[1])
    /\ out[2].emitted[2] \in 1..(BlockLength(arg[2]) - 1)
    /\ BlocksUpTo(arg, 1) + BlockLength(arg[3]) <= MAX_CONTENT_CHARS
    /\ out[2].truncated

(***************************************************************************)
(* Properties of the category assignment                                   *)
(***************************************************************************)
\* the entries of the reply whose key names the domain up to letter case,
\* surrounding blanks and one leading www.
NamingEntries(entries, domain) ==
    {k \in 1..Len(entries) : StripWww(Trim(ToLowerCase(entries[k].key))) = domain}

\* the category the last of those entries gives
CategoryByLastKey(entries, domain) ==
    IF NamingEntries(entries, domain) = {} THEN "other"
    ELSE LET last == CHOOSE k \in NamingEntries(entries, domain) :
                         \A o \in NamingEntries(entries, domain) : o <= k
         IN IF entries[last].val \in SOURCE_CATEGORIES
            THEN entries[last].val ELSE "other"

CategoriesByLastKey(entries, replyEntries) ==
    \A i \in 1..Len(entries) :
        entries[i].category = CategoryByLastKey(replyEntries, entries[i].domain)

SomeCallFailed == \E i \in 1..Len(callStatus) : callStatus[i] = "failed"

\* the search call that was the first to fail
FirstFailedCall ==
    completionOrder[CHOOSE k \in 1..Len(completionOrder) :
                        /\ callStatus[completionOrder[k]] = "failed"
                        /\ \A j \in 1..(k - 1) :
                               callStatus[completionOrder[j]] # "failed"]

\* C36: after the first search call of a run failed, the run has failed with
\* the error of that call; the calls that settle later, successfully or not,
\* change neither the outcome nor the error, their results are not
\* aggregated, no classification request is issued and no result returned.
C36_LateSearchCallsChangeNothing ==
    /\ [](SomeCallFailed
            => /\ pc = "failed"
               /\ error[1] = "search call failed"
               /\ error[3] = FirstFailedCall
               /\ locals = EmptyLocals
               /\ result = <<>>
               /\ classifyRequests = <<>>
               /\ classifyReply = <<>>)
    /\ [][SomeCallFailed
            => UNCHANGED <<pc, error, locals, result, classifyRequests>>]_vars

\* the call that settled first failed; after it another call completed with
\* cited sources, and the error of the run is that of the first call
C36_Witness ==
    /\ pc = "failed"
    /\ Len(completionOrder) >= 2
    /\ callStatus[completionOrder[1]] = "failed"
    /\ \E k \in 2..Len(completionOrder) :
           /\ callStatus[completionOrder[k]] = "ok"
           /\ callResult[completionOrder[k]].sources # <<>>
    /\ error[3] = completionOrder[1]

(***************************************************************************)
(* Properties of target matching against domain grouping                   *)
(***************************************************************************)
\* s and t are http or https URLs with the same port that differ in one
\* respect: one host is the other, a host without 'www.', with 'www.' put in
\* front, or the hosts are equal and one scheme is http, the other https;
\* the paths are free
DiffersByWwwOrScheme(s, t) ==
    /\ s.ok /\ t.ok
    /\ {s.scheme, t.scheme} \subseteq {<<"h","t","t","p">>, <<"h","t","t","p","s">>}
    /\ s.port = t.port
    /\ \/ /\ s.scheme = t.scheme
          /\ ~StartsWith(t.host, Str_www)
          /\ s.host = Str_www \o t.host
       \/ /\ s.scheme = t.scheme
          /\ ~StartsWith(s.host, Str_www)
          /\ t.host = Str_www \o s.host
       \/ /\ s.scheme # t.scheme
          /\ s.host = t.host

\* the citation does not count as an appearance of the target
MatchIsExactOnSchemeAndHost ==
    fn = "urlMatches" =>
        \A t \in SitePool :
            (normalizeUrlForMatch(t) = arg[2]
             /\ DiffersByWwwOrScheme(ParseUrl(arg[1]), ParseUrl(t)))
                => out[1] = FALSE

\* domainKey gives the citation and the target the same domain
GroupedUnderOneDomain ==
    fn = "urlMatches" =>
        \A t \in SitePool :
            (normalizeUrlForMatch(t) = arg[2]
             /\ DiffersByWwwOrScheme(ParseUrl(arg[1]), ParseUrl(t)))
                => domainKey(arg[1]) = domainKey(t)

\* C37: a citation whose URL differs from the target only by a leading
\* 'www.' on the host or by http against https is no appearance of the
\* target for urlMatches, although domainKey gives both URLs the same
\* domain.
C37_MatchIsExactUnlikeGrouping ==
    MatchIsExactOnSchemeAndHost /\ GroupedUnderOneDomain

\* the seed cannot be parsed as a URL, or its scheme is not http or https
UnusableSeed ==
    \/ ~ParseUrl(siteUrl).ok
    \/ ParseUrl(siteUrl).scheme \notin {Str_http, Str_https}

\* C38: for a seed that cannot be parsed as a URL or whose scheme is not
\* http or https, crawlSite does not throw, makes one fetch attempt, which
\* fails, places no further URL in the queue and returns the empty list.
C38_UnusableSeedGivesNoPages ==
    (UnusableSeed /\ crawlPc # "idle")
        => /\ crawlPc \in {"looping", "returned"}
           /\ results = <<>>
           /\ Len(Enqueued) = 1
           /\ seen = {base}
           /\ crawlPc = "returned"
                  => /\ Len(fetched) = 1
                     /\ Respond(site, fetched[1]).kind = "fetch_rejects"
                     /\ queue = <<>>

\* the crawl of the seed 'x.com', which names the site without a scheme,
\* returned no page after one fetch
C38_Witness ==
    /\ crawlPc = "returned"
    /\ siteUrl = Str_siteHost
    /\ site.kind = "ok"
    /\ Len(fetched) = 1
    /\ results = <<>>

(***************************************************************************)
(* Properties of the web client                                            *)
(***************************************************************************)
\* C39: the set of selected queries never has more than 5 elements, and a
\* toggleQuery call for an index removes the index when it is selected,
\* adds it when it is not selected and fewer than 5 are, and leaves the set
\* as it is otherwise.
C39_AtMostFiveSelectedQueries ==
    /\ [](Cardinality(selectedQueries) <= 5)
    /\ [][(lastToggle' # lastToggle \/ selectedQueries' # selectedQueries)
             => IF lastToggle' \in selectedQueries
                THEN selectedQueries' = selectedQueries \ {lastToggle'}
                ELSE IF Cardinality(selectedQueries) < 5
                THEN selectedQueries' = selectedQueries \cup {lastToggle'}
                ELSE selectedQueries' = selectedQueries]_vars

\* five queries are selected and the last call was for a sixth, which is
\* not selected
C39_Witness ==
    /\ step = 3
    /\ Cardinality(selectedQueries) = 5
    /\ lastToggle \in 0..(geoResult[1] - 1)
    /\ lastToggle \notin selectedQueries

\* C40: at most one geo-score request is issued per submitted analysis: none
\* in step 1, exactly one from step 2 on, issued when step 2 is entered with
\* the analysis result; step 3 is reached only with geoResult set by the
\* answer to that request; and once the request has failed, no step, Retry
\* included, issues another request or leaves step 2.
C40_OneGeoScoreRequestPerAnalysis ==
    /\ [](/\ geoRequests <= analyzeRequests
          /\ step = 1 => (geoRequests = 0 /\ ~geoPending)
          /\ step >= 2 => (geoRequests = 1 /\ analysis # <<>>)
          /\ step = 3 => (geoResult # <<>> /\ ~geoPending /\ error2 = <<>>))
    /\ [][(step = 1 /\ step' = 2) => (geoPending' /\ loading2')]_vars
    /\ [][(step = 2 /\ ~geoPending)
             => (step' = 2 /\ ~geoPending' /\ geoRequests' = geoRequests)]_vars
    /\ [][(error2 # <<>> /\ error2' = <<>>)
             => (~loading2' /\ geoRequests' = geoRequests /\ step' = step)]_vars

\* the request failed, Retry was clicked, and the page shows step 2 with
\* neither an error nor a request in flight
C40_Witness ==
    /\ step = 2
    /\ geoRequests = 1
    /\ ~geoPending
    /\ error2 = <<>>
    /\ ~loading2
    /\ geoResult = <<>>

====
